---- MODULE Spec2Model ----
(***************************************************************************)
(* Verification model of the Verolux gate-security supervisor.             *)
(*                                                                         *)
(* Part 1: the ticket and queue manager of                                 *)
(* Backend/advanced_body_checking.py: the module-level state (persons,     *)
(* groups, tickets, guards, queue, state_lock), the per-frame step of      *)
(* process_detections and the cancel_ticket endpoint.                      *)
(*                                                                         *)
(* Conventions                                                             *)
(*  - time is counted in whole seconds; time.time() is the variable now,   *)
(*    which starts at Clock0 >= 1, so that 0 can stand for Python's None   *)
(*    in every Optional timestamp (and is falsy as None and 0.0 are);      *)
(*  - coordinates are normalised coordinates times 100 (hundredths);       *)
(*  - Python dicts keep insertion order: persons, groups, tickets and      *)
(*    guards are sequences; a ticket's id is its index in tickets, a       *)
(*    guard's id its index in guards (neither dict ever deletes a key);    *)
(*  - a detection carries the id its Person is given (field uid).          *)
(***************************************************************************)
EXTENDS Integers, Sequences, FiniteSets, TLC

VARIABLES now, persons, groups, tickets, guards, queue,
          state_lock, pc, uuid_counter, visits,
          person_states, guard_states, decision, recent_in_ga,
          tracks, next_id, max_age, min_hits, returned,
          events, history, active_contacts, replica,
          _in_memory_cache, emit_calls

(* the state of advanced_body_checking.py and of its environment *)
manager_vars == <<persons, groups, tickets, guards, queue,
                  state_lock, pc, uuid_counter, visits>>

(* the state of the DecisionEngine of fsm_decision.py, the result of its
   last update_person call, and the in_gate_area arguments of the last
   calls for each track *)
fsm_vars == <<person_states, guard_states, decision, recent_in_ga>>

(* the SimpleTracker of tracking_system.py: its tracks, next_id, the
   max_age and min_hits it was constructed with, and the list its last
   update returned; frame_count and Track.age are only counted, never
   read, and are left out *)
tracker_vars == <<tracks, next_id, max_age, min_hits, returned>>

(* of the GateChecker of gate_sop_checker.py: the events of its EventLogger,
   the history of its JitterFilter and the keys of the logger's
   active_contacts; its tracker and its decision engine
   are the variables above *)
gate_vars == <<events, history, active_contacts>>

(* the EventDeduplicator of event_deduplication.py without Redis: its
   _in_memory_cache, and the emit_event calls made so far with what each
   returned *)
dedup_vars == <<_in_memory_cache, emit_calls>>

vars == <<now, manager_vars, fsm_vars, tracker_vars, gate_vars, replica, dedup_vars>>

(* EventLogger.__init__ and JitterFilter.__init__ *)
GateConstructed ==
    /\ events = <<>>
    /\ history = <<>>
    /\ active_contacts = {}

(* a second ticket manager, freshly loaded: the module-level persons,
   groups, tickets, guards and queue of another process running
   advanced_body_checking.py *)
ReplicaConstructed ==
    replica = [persons |-> <<>>, groups |-> <<>>, tickets |-> <<>>, guards |-> <<>>,
               queue |-> <<>>, state_lock |-> "free", pc |-> "idle"]

(* EventDeduplicator.__init__ with redis_client = None *)
DedupConstructed ==
    /\ _in_memory_cache = {}
    /\ emit_calls = <<>>

(* SimpleTracker.__init__ *)
TrackerConstructed(age, hits) ==
    /\ tracks = <<>>
    /\ next_id = 1
    /\ max_age = age
    /\ min_hits = hits
    /\ returned = <<>>

None == 0

(* no update_person call has returned yet *)
NoDecision == [track_id |-> None, prev_state |-> "none", state |-> "none", completed |-> FALSE]

(* ---------------- bounds of the model ---------------- *)
Clock0 == 1
MaxTime == 16
NumTracks == 3
MaxTickets == 3
MaxDetections == 3
MaxVisits == 1

(* ---------------- CONFIG (seconds, hundredths) ---------------- *)
T_GROUP == 2
D_MAX == 15
T_LOCK == 1
T_BREAK == 2
PRESENCE_TO_CHECK == 6
GUARD_READY == 3
PROXIMITY_MIN == 2
CHECK_MIN_INDIVIDUAL == 3
CHECK_MIN_BATCH == 4
T_MAX_WAIT == 45
T_VACATE == 2
PERSON_CONFIDENCE == 50
IOU_THRESHOLD == 2
HISTORY_WINDOW == 10
GUARD_DOWNGRADE_AFTER == 30

(* gate_config: the default zones and examination mode *)
gate_area == [x |-> 30, y |-> 20, width |-> 40, height |-> 60]
guard_anchor == [x |-> 10, y |-> 15, width |-> 15, height |-> 70]
examination_mode == "sequential"

(* ---------------- list helpers ---------------- *)
SeqToSet(s) == {s[i] : i \in 1..Len(s)}

Contains(s, x) == \E i \in 1..Len(s) : s[i] = x

(* list.remove(x): drops the first occurrence *)
ListRemove(s, x) ==
    IF ~Contains(s, x) THEN s
    ELSE LET k == CHOOSE i \in 1..Len(s) : s[i] = x /\ \A j \in 1..(i-1) : s[j] # x
         IN  SubSeq(s, 1, k-1) \o SubSeq(s, k+1, Len(s))

Max(a, b) == IF a >= b THEN a ELSE b
Min(a, b) == IF a <= b THEN a ELSE b

(* ---------------- geometry ---------------- *)
(* calculate_distance, squared: sqrt is monotone, so d <= D is d*d <= D*D *)
calculate_distance2(p1, p2) ==
    (p1[1] - p2[1]) * (p1[1] - p2[1]) + (p1[2] - p2[2]) * (p1[2] - p2[2])

(* calculate_iou as the pair <<intersection, union>>; <<0, 1>> stands for 0.0 *)
calculate_iou(box1, box2) ==
    LET x1 == Max(box1[1], box2[1])
        y1 == Max(box1[2], box2[2])
        x2 == Min(box1[3], box2[3])
        y2 == Min(box1[4], box2[4])
    IN  IF x2 <= x1 \/ y2 <= y1 THEN <<0, 1>>
        ELSE LET intersection == (x2 - x1) * (y2 - y1)
                 area1 == (box1[3] - box1[1]) * (box1[4] - box1[2])
                 area2 == (box2[3] - box2[1]) * (box2[4] - box2[2])
                 union == area1 + area2 - intersection
             IN  IF union > 0 THEN <<intersection, union>> ELSE <<0, 1>>

is_in_area(center, area) ==
    /\ area.x <= center[1] /\ center[1] <= area.x + area.width
    /\ area.y <= center[2] /\ center[2] <= area.y + area.height

(* ---------------- persons ---------------- *)
HasPerson(P, pid) == \E i \in 1..Len(P) : P[i].id = pid

GetPerson(P, pid) == P[CHOOSE i \in 1..Len(P) : P[i].id = pid]

(* detection filter of process_detections *)
IsPersonDetection(d) == d.cls_id = 0 /\ d.conf > PERSON_CONFIDENCE

(* the Person built from one detection *)
NewPerson(d, t) ==
    [id |-> d.uid,
     bbox |-> d.bbox,
     center |-> <<(d.bbox[1] + d.bbox[3]) \div 2, (d.bbox[2] + d.bbox[4]) \div 2>>,
     type |-> "person",
     first_seen |-> t,
     in_gate_area |->
        is_in_area(<<(d.bbox[1] + d.bbox[3]) \div 2, (d.bbox[2] + d.bbox[4]) \div 2>>, gate_area),
     in_guard_anchor |->
        is_in_area(<<(d.bbox[1] + d.bbox[3]) \div 2, (d.bbox[2] + d.bbox[4]) \div 2>>, guard_anchor),
     anchor_entry_time |-> None,
     location_history |-> <<>>,
     guard_classification_time |-> None]

(* current_persons: a dict, so a later detection with the same id replaces
   the earlier one in place *)
RECURSIVE CurrentPersons(_, _)
CurrentPersons(dets, t) ==
    IF dets = <<>> THEN <<>>
    ELSE LET rest == CurrentPersons(SubSeq(dets, 1, Len(dets) - 1), t)
             d == dets[Len(dets)]
         IN  IF ~IsPersonDetection(d) THEN rest
             ELSE IF HasPerson(rest, d.uid)
                  THEN [i \in 1..Len(rest) |->
                          IF rest[i].id = d.uid THEN NewPerson(d, t) ELSE rest[i]]
                  ELSE Append(rest, NewPerson(d, t))

(* the guard identification fields of an existing person are copied onto
   its new Person record; first_seen is not *)
PreservePerson(old, new) ==
    [new EXCEPT !.anchor_entry_time = old.anchor_entry_time,
                !.location_history = old.location_history,
                !.guard_classification_time = old.guard_classification_time,
                !.type = old.type]

(* persons.update(current_persons) followed by the deletion of the persons
   no longer detected *)
MergePersons(P, cur) ==
    LET kept == SelectSeq(P, LAMBDA p : HasPerson(cur, p.id))
        upd == [i \in 1..Len(kept) |-> PreservePerson(kept[i], GetPerson(cur, kept[i].id))]
        added == SelectSeq(cur, LAMBDA p : ~HasPerson(P, p.id))
    IN  upd \o added


(* ---------------- identify_guards_by_location ---------------- *)
CountHistory(h, t, anchor) ==
    Cardinality({i \in 1..Len(h) : IF anchor THEN h[i].in_anchor ELSE h[i].in_gate})

(* sum(h['time'] ...) over the recent anchor entries of the history *)
RECURSIVE SumAnchorTimes(_, _)
SumAnchorTimes(h, t) ==
    IF h = <<>> THEN 0
    ELSE (IF h[1].in_anchor /\ t - h[1].time < HISTORY_WINDOW THEN h[1].time ELSE 0)
         + SumAnchorTimes(Tail(h), t)

IdentifyGuard(p, t) ==
    LET hist == SelectSeq(Append(p.location_history,
                                 [time |-> t, in_anchor |-> p.in_guard_anchor,
                                  in_gate |-> p.in_gate_area]),
                          LAMBDA h : t - h.time < HISTORY_WINDOW)
        q == [p EXCEPT !.location_history = hist]
    IN  IF p.in_guard_anchor
        THEN LET aet == IF p.anchor_entry_time = None THEN t ELSE p.anchor_entry_time
                 time_in_anchor == t - aet
                 byDwell == time_in_anchor >= GUARD_READY
                 byPattern == /\ Len(hist) >= 3
                              /\ CountHistory(hist, t, TRUE) >= 2
                              /\ CountHistory(hist, t, FALSE) >= 1
                 promote == (byDwell \/ byPattern) /\ p.type # "guard"
             IN  [q EXCEPT !.anchor_entry_time = aet,
                           !.type = IF promote THEN "guard" ELSE @,
                           !.guard_classification_time = IF promote THEN t ELSE @]
        ELSE IF p.anchor_entry_time # None /\ t - p.anchor_entry_time > T_VACATE
             THEN LET downgrade ==
                          /\ p.guard_classification_time # None
                          /\ p.type = "guard"
                          /\ t - p.guard_classification_time > GUARD_DOWNGRADE_AFTER
                          /\ SumAnchorTimes(hist, t) < 1
                  IN  [q EXCEPT !.anchor_entry_time = None,
                                !.type = IF downgrade THEN "person" ELSE @]
             ELSE q

identify_guards_by_location(P, t) == [i \in 1..Len(P) |-> IdentifyGuard(P[i], t)]

(* ---------------- groups ---------------- *)
InAnyGroup(G, pid) == \E i \in 1..Len(G) : Contains(G[i].members, pid)

IouAtLeastThreshold(b1, b2) ==
    calculate_iou(b1, b2)[1] * 100 >= IOU_THRESHOLD * calculate_iou(b1, b2)[2]

(* the members gathered around gate person i of detect_groups' outer loop *)
RECURSIVE GroupMembersFrom(_, _, _, _)
GroupMembersFrom(gp, i, j, G) ==
    IF j > Len(gp) THEN <<>>
    ELSE LET joins ==
                 /\ ~InAnyGroup(G, gp[j].id)
                 /\ \/ calculate_distance2(gp[i].center, gp[j].center) <= D_MAX * D_MAX
                    \/ IouAtLeastThreshold(gp[i].bbox, gp[j].bbox)
                 /\ (IF gp[i].first_seen >= gp[j].first_seen
                     THEN gp[i].first_seen - gp[j].first_seen
                     ELSE gp[j].first_seen - gp[i].first_seen) <= T_GROUP
         IN  (IF joins THEN <<gp[j].id>> ELSE <<>>) \o GroupMembersFrom(gp, i, j + 1, G)

RECURSIVE DetectFrom(_, _, _, _)
DetectFrom(gp, i, G, t) ==
    IF i > Len(gp) THEN <<>>
    ELSE LET members == <<gp[i].id>> \o GroupMembersFrom(gp, i, i + 1, G)
             made == IF ~InAnyGroup(G, gp[i].id) /\ Len(members) > 1
                     THEN <<[members |-> members, formed_at |-> t, last_updated |-> t]>>
                     ELSE <<>>
         IN  made \o DetectFrom(gp, i + 1, G, t)

GatePersons(P) == SelectSeq(P, LAMBDA p : p.in_gate_area /\ p.type = "person")

(* detect_groups: membership is tested against the global groups only,
   never against the groups formed earlier in the same call *)
detect_groups(P, G, t) ==
    IF Len(GatePersons(P)) < 2 THEN <<>> ELSE DetectFrom(GatePersons(P), 1, G, t)


(* ---------------- tickets ---------------- *)
NewTicket(type, members, t, ready_at, mode, metadata) ==
    [type |-> type,
     members |-> members,
     status |-> "WAITING",
     created_at |-> t,
     ready_at |-> ready_at,
     assigned_guard |-> None,
     examination_mode |-> mode,
     proximity_start |-> None,
     proximity_duration |-> 0,
     examination_start |-> None,
     examination_duration |-> 0,
     completed_at |-> None,
     escalated_reason |-> "none",
     metadata |-> metadata]

(* tickets[id] = ticket; queue.append(id) *)
AddTicket(M, ticket) ==
    [M EXCEPT !.tickets = Append(@, ticket), !.queue = Append(@, Len(M.tickets) + 1)]

RECURSIVE AddIndividualTickets(_, _, _, _)
AddIndividualTickets(M, members, t, ready_at) ==
    IF members = <<>> THEN M
    ELSE AddIndividualTickets(
             AddTicket(M, NewTicket("individual", <<Head(members)>>, t, ready_at, "sequential",
                                 "split_from_group")),
             Tail(members), t, ready_at)

(* the first ticket of the given type with the given member set and a
   status among the given ones; 0 when there is none *)
FindTicket(T, type, memberSet, statuses) ==
    LET hits == {i \in 1..Len(T) : /\ T[i].type = type
                                   /\ SeqToSet(T[i].members) = memberSet
                                   /\ T[i].status \in statuses}
    IN  IF hits = {} THEN 0 ELSE CHOOSE i \in hits : \A j \in hits : i <= j

AllStatuses ==
    {"WAITING", "ASSIGNING", "IN_CHECK", "IN_BATCH", "CHECKED", "ESCALATED", "CANCELLED", "VERIFY"}

NonTerminal == {"WAITING", "ASSIGNING", "IN_CHECK", "IN_BATCH"}

Terminal == {"CHECKED", "ESCALATED", "CANCELLED"}

(* split_group: the group's ticket is looked up by type and member set
   alone, whatever its status *)
split_group(group, M, t) ==
    LET gt == FindTicket(M.tickets, "group", SeqToSet(group.members), AllStatuses)
    IN  IF gt = 0 THEN M
        ELSE LET M1 == AddIndividualTickets(M, group.members, t, M.tickets[gt].ready_at)
             IN  [M1 EXCEPT !.tickets[gt].status = "CANCELLED",
                            !.tickets[gt].escalated_reason = "Group split due to separation"]

(* ---------------- update_existing_groups ---------------- *)
ActiveMembers(group, P) == SelectSeq(group.members, LAMBDA pid : HasPerson(P, pid))

(* the square of the largest distance between two of the given persons *)
MaxDistance2(members, P) ==
    LET ds == {calculate_distance2(GetPerson(P, members[i]).center,
                                   GetPerson(P, members[j]).center) :
                  i \in 1..Len(members), j \in 1..Len(members)}
    IN  CHOOSE d \in ds : \A e \in ds : e <= d

(* the group as the first loop leaves it *)
UpdatedGroup(group, P, t) ==
    LET active == ActiveMembers(group, P)
    IN  IF Len(active) = 0 \/ Len(active) = Len(group.members) THEN group
        ELSE [group EXCEPT !.members = active, !.last_updated = t]

GroupToRemove(group, P) == Len(ActiveMembers(group, P)) = 0

(* max_distance > D_MAX * 1.5, as 4 d^2 > 9 D_MAX^2 *)
GroupToSplit(group, P, t) ==
    LET active == ActiveMembers(group, P)
    IN  /\ Len(active) > 1
        /\ 4 * MaxDistance2(active, P) > 9 * D_MAX * D_MAX
        /\ t - UpdatedGroup(group, P, t).last_updated > T_BREAK

RECURSIVE SplitGroups(_, _, _, _)
SplitGroups(G, M, P, t) ==
    IF G = <<>> THEN M
    ELSE SplitGroups(Tail(G),
                     IF GroupToSplit(Head(G), P, t)
                        /\ Len(UpdatedGroup(Head(G), P, t).members) > 1
                     THEN split_group(UpdatedGroup(Head(G), P, t), M, t)
                     ELSE M,
                     P, t)

update_existing_groups(P, M, t) ==
    LET kept == SelectSeq(M.groups,
                          LAMBDA g : ~GroupToRemove(g, P) /\ ~GroupToSplit(g, P, t))
        M1 == SplitGroups(M.groups, M, P, t)
    IN  [M1 EXCEPT !.groups = [i \in 1..Len(kept) |-> UpdatedGroup(kept[i], P, t)]]

(* ---------------- create_tickets_for_individuals ---------------- *)
GroupedPersonIds(G) == UNION {SeqToSet(G[i].members) : i \in 1..Len(G)}

HasIndividualTicket(T, pid) ==
    \E i \in 1..Len(T) : /\ T[i].type = "individual"
                         /\ Contains(T[i].members, pid)
                         /\ T[i].status \in {"WAITING", "ASSIGNING", "IN_CHECK"}

RECURSIVE CreateIndividuals(_, _, _)
CreateIndividuals(ps, M, t) ==
    IF ps = <<>> THEN M
    ELSE LET p == Head(ps)
             time_in_gate == t - p.first_seen
         IN  CreateIndividuals(Tail(ps),
                 IF time_in_gate >= PRESENCE_TO_CHECK /\ ~HasIndividualTicket(M.tickets, p.id)
                 THEN AddTicket(M, NewTicket("individual", <<p.id>>, t, t, "sequential", "none"))
                 ELSE M,
                 t)

create_tickets_for_individuals(P, M, t) ==
    CreateIndividuals(
        SelectSeq(GatePersons(P), LAMBDA p : p.id \notin GroupedPersonIds(M.groups)),
        M, t)

(* ---------------- create_tickets_for_groups ---------------- *)
RECURSIVE CreateGroupTickets(_, _, _)
CreateGroupTickets(G, M, t) ==
    IF G = <<>> THEN M
    ELSE LET g == Head(G)
             existing == FindTicket(M.tickets, "group", SeqToSet(g.members),
                                    {"WAITING", "ASSIGNING", "IN_BATCH"})
         IN  CreateGroupTickets(Tail(G),
                 IF t - g.formed_at >= T_LOCK /\ existing = 0
                 THEN AddTicket(M, NewTicket("group", g.members, t, t, examination_mode, "group_id"))
                 ELSE M,
                 t)

create_tickets_for_groups(M, t) == CreateGroupTickets(M.groups, M, t)


(* ---------------- guards ---------------- *)
(* handle_guard_vacation: the ticket is escalated whatever its status; the
   guard's current_ticket is left as it is *)
handle_guard_vacation(ticket_id, M, t) ==
    IF ticket_id \in 1..Len(M.tickets)
    THEN [M EXCEPT !.tickets[ticket_id].status = "ESCALATED",
                   !.tickets[ticket_id].escalated_reason = "Guard left during examination",
                   !.tickets[ticket_id].completed_at = t,
                   !.queue = ListRemove(@, ticket_id)]
    ELSE M

GuardPersons(P) == SelectSeq(P, LAMBDA p : p.in_guard_anchor /\ p.type = "guard")

(* the loop body of update_guard_status for guard g *)
UpdateGuard(g, P, M, t) ==
    LET guard == M.guards[g]
    IN  IF HasPerson(GuardPersons(P), guard.person_id)
        THEN [M EXCEPT !.guards[g].last_seen = t,
                       !.guards[g].is_active = (t - guard.active_since >= GUARD_READY)]
        ELSE IF t - guard.last_seen > T_VACATE
             THEN LET M1 == [M EXCEPT !.guards[g].is_active = FALSE]
                  IN  IF guard.current_ticket # None
                      THEN handle_guard_vacation(guard.current_ticket, M1, t)
                      ELSE M1
             ELSE M

RECURSIVE UpdateGuards(_, _, _, _)
UpdateGuards(g, P, M, t) ==
    IF g > Len(M.guards) THEN M ELSE UpdateGuards(g + 1, P, UpdateGuard(g, P, M, t), t)

RECURSIVE AddGuards(_, _, _)
AddGuards(ps, M, t) ==
    IF ps = <<>> THEN M
    ELSE AddGuards(Tail(ps),
             IF \E g \in 1..Len(M.guards) : M.guards[g].person_id = Head(ps).id
             THEN M
             ELSE [M EXCEPT !.guards = Append(@, [person_id |-> Head(ps).id,
                                                  active_since |-> t,
                                                  last_seen |-> t,
                                                  is_active |-> FALSE,
                                                  current_ticket |-> None])],
             t)

update_guard_status(P, M, t) == AddGuards(GuardPersons(P), UpdateGuards(1, P, M, t), t)

(* ---------------- assign_tickets_to_guards ---------------- *)
AvailableGuards(M) ==
    SelectSeq([g \in 1..Len(M.guards) |-> g],
              LAMBDA g : M.guards[g].is_active /\ M.guards[g].current_ticket = None)

(* the loop over queue[:] with the guards still available *)
RECURSIVE AssignLoop(_, _, _)
AssignLoop(q, available, M) ==
    IF q = <<>> THEN M
    ELSE LET ticket_id == Head(q)
         IN  IF M.tickets[ticket_id].status = "WAITING" /\ available # <<>>
             THEN AssignLoop(Tail(q), Tail(available),
                      [M EXCEPT !.tickets[ticket_id].assigned_guard = Head(available),
                                !.tickets[ticket_id].status = "ASSIGNING",
                                !.guards[Head(available)].current_ticket = ticket_id])
             ELSE AssignLoop(Tail(q), available, M)

(* the queue served newest first *)
Reverse(s) == [i \in 1..Len(s) |-> s[Len(s) + 1 - i]]

assign_tickets_newest_first(M) ==
    IF AvailableGuards(M) = <<>> THEN M
    ELSE AssignLoop(Reverse(M.queue), AvailableGuards(M), M)

assign_tickets_to_guards(M) ==
    IF AvailableGuards(M) = <<>> THEN M ELSE AssignLoop(M.queue, AvailableGuards(M), M)

(* ---------------- update_ticket_status ---------------- *)
ProximityDetected(ticket, guard_person, P) ==
    \E i \in 1..Len(ticket.members) :
        /\ HasPerson(P, ticket.members[i])
        /\ GetPerson(P, ticket.members[i]).in_gate_area
        /\ calculate_distance2(guard_person.center, GetPerson(P, ticket.members[i]).center)
              <= D_MAX * D_MAX

(* a member that is not detected counts as outside the gate area *)
AllInGate(ticket, P) ==
    \A i \in 1..Len(ticket.members) :
        HasPerson(P, ticket.members[i]) /\ GetPerson(P, ticket.members[i]).in_gate_area

(* the branch taken when proximity is detected, for ticket id tid *)
ProximityStep(tid, P, M, t) ==
    LET ticket == M.tickets[tid]
        tk1 == IF ticket.proximity_start = None
               THEN [ticket EXCEPT !.proximity_start = t]
               ELSE [ticket EXCEPT !.proximity_duration = t - ticket.proximity_start]
        tk2 == IF tk1.proximity_duration >= PROXIMITY_MIN /\ tk1.status = "ASSIGNING"
               THEN [tk1 EXCEPT !.status = IF tk1.type = "individual" THEN "IN_CHECK"
                                           ELSE "IN_BATCH",
                                !.examination_start = t]
               ELSE tk1
        examined == tk2.proximity_duration >= PROXIMITY_MIN /\ tk2.examination_start # None
        tk3 == IF examined
               THEN [tk2 EXCEPT !.examination_duration = t - tk2.examination_start]
               ELSE tk2
        min_duration == IF tk3.type = "individual" THEN CHECK_MIN_INDIVIDUAL
                        ELSE CHECK_MIN_BATCH
        finished == examined /\ tk3.examination_duration >= min_duration
    IN  IF ~finished THEN [M EXCEPT !.tickets[tid] = tk3]
        ELSE IF AllInGate(tk3, P)
             THEN [M EXCEPT !.tickets[tid] = [tk3 EXCEPT !.status = "CHECKED",
                                                          !.completed_at = t],
                            !.guards[ticket.assigned_guard].current_ticket = None,
                            !.queue = ListRemove(@, tid)]
             ELSE [M EXCEPT !.tickets[tid] =
                       [tk3 EXCEPT !.status = "ESCALATED",
                                   !.escalated_reason =
                                       "Member left gate area during examination",
                                   !.completed_at = t]]

(* the loop body with proximity_start kept when proximity is lost: the next
   frame in proximity counts from the old start *)
UpdateTicketKeepingStart(tid, P, M, t) ==
    LET ticket == M.tickets[tid]
        guard_id == ticket.assigned_guard
    IN  IF ticket.status \notin {"ASSIGNING", "IN_CHECK", "IN_BATCH"} THEN M
        ELSE IF guard_id = None \/ guard_id \notin 1..Len(M.guards) THEN M
        ELSE IF ~M.guards[guard_id].is_active THEN handle_guard_vacation(tid, M, t)
        ELSE IF ~HasPerson(P, M.guards[guard_id].person_id) THEN M
        ELSE IF ProximityDetected(ticket, GetPerson(P, M.guards[guard_id].person_id), P)
             THEN ProximityStep(tid, P, M, t)
             ELSE [M EXCEPT !.tickets[tid].proximity_duration = 0]

(* the loop body of update_ticket_status for ticket id tid *)
UpdateTicket(tid, P, M, t) ==
    LET ticket == M.tickets[tid]
        guard_id == ticket.assigned_guard
    IN  IF ticket.status \notin {"ASSIGNING", "IN_CHECK", "IN_BATCH"} THEN M
        ELSE IF guard_id = None \/ guard_id \notin 1..Len(M.guards) THEN M
        ELSE IF ~M.guards[guard_id].is_active THEN handle_guard_vacation(tid, M, t)
        ELSE IF ~HasPerson(P, M.guards[guard_id].person_id) THEN M
        ELSE IF ProximityDetected(ticket, GetPerson(P, M.guards[guard_id].person_id), P)
             THEN ProximityStep(tid, P, M, t)
             ELSE [M EXCEPT !.tickets[tid].proximity_start = None,
                            !.tickets[tid].proximity_duration = 0]

RECURSIVE UpdateTickets(_, _, _, _)
UpdateTickets(tid, P, M, t) ==
    IF tid > Len(M.tickets) THEN M ELSE UpdateTickets(tid + 1, P, UpdateTicket(tid, P, M, t), t)

update_ticket_status(P, M, t) == UpdateTickets(1, P, M, t)

(* ---------------- check_escalation_conditions ---------------- *)
(* the sweep with the boundary included *)
EscalateTicketAtMaxWait(tid, M, t) ==
    LET ticket == M.tickets[tid]
        wait_time == IF ticket.ready_at # None THEN t - ticket.ready_at
                     ELSE t - ticket.created_at
    IN  IF ticket.status = "WAITING" /\ wait_time >= T_MAX_WAIT
        THEN [M EXCEPT !.tickets[tid].status = "ESCALATED",
                       !.tickets[tid].escalated_reason = "Maximum wait time exceeded",
                       !.tickets[tid].completed_at = t,
                       !.queue = ListRemove(@, tid)]
        ELSE M

EscalateTicket(tid, M, t) ==
    LET ticket == M.tickets[tid]
        wait_time == IF ticket.ready_at # None THEN t - ticket.ready_at
                     ELSE t - ticket.created_at
    IN  IF ticket.status = "WAITING" /\ wait_time > T_MAX_WAIT
        THEN [M EXCEPT !.tickets[tid].status = "ESCALATED",
                       !.tickets[tid].escalated_reason = "Maximum wait time exceeded",
                       !.tickets[tid].completed_at = t,
                       !.queue = ListRemove(@, tid)]
        ELSE M

RECURSIVE EscalateTickets(_, _, _)
EscalateTickets(tid, M, t) ==
    IF tid > Len(M.tickets) THEN M ELSE EscalateTickets(tid + 1, EscalateTicket(tid, M, t), t)

check_escalation_conditions(M, t) == EscalateTickets(1, M, t)


(* ---------------- process_detections ---------------- *)
PersonsAfter(P, dets, t) ==
    identify_guards_by_location(MergePersons(P, CurrentPersons(dets, t)), t)

(* the calls of process_detections from detect_groups to
   check_escalation_conditions, on the persons P of this frame *)
TicketPipeline(P, M, t) ==
    LET M0 == [M EXCEPT !.groups = @ \o detect_groups(P, M.groups, t)]
        M1 == update_existing_groups(P, M0, t)
        M2 == create_tickets_for_individuals(P, M1, t)
        M3 == create_tickets_for_groups(M2, t)
        M4 == update_guard_status(P, M3, t)
        M5 == assign_tickets_to_guards(M4)
        M6 == update_ticket_status(P, M5, t)
    IN  check_escalation_conditions(M6, t)

Manager == [groups |-> groups, tickets |-> tickets, guards |-> guards, queue |-> queue]

(* ---------------- inputs ---------------- *)

Box(c) == <<c[1] - 10, c[2] - 15, c[1] + 10, c[2] + 15>>

PlaceAnchor == <<20, 50>>
PlaceGateNear == <<32, 50>>
PlaceGateFar == <<60, 50>>

Places == {PlaceAnchor, PlaceGateNear, PlaceGateFar}

(* where a tracked person that is not detected in the frame is *)
Absent == <<>>


(* seconds between two readings of the clock *)
FrameDts == {3}

(* tracks 1..NumTracks-1 are visitors, who stand in the gate area; the last
   track is a member of staff, who stands in the guard anchor *)
VisitorPlaces == {PlaceGateNear, PlaceGateFar, Absent}
StaffPlaces == {PlaceAnchor, Absent}

Wheres ==
    {w \in [1..NumTracks -> Places \cup {Absent}] :
        \A k \in 1..NumTracks :
            w[k] \in (IF k = NumTracks THEN StaffPlaces ELSE VisitorPlaces)}

(* one detection per tracked person that is in view, in track order *)
RECURSIVE TrackedDetections(_, _)
TrackedDetections(where, k) ==
    IF k > NumTracks THEN <<>>
    ELSE (IF where[k] = Absent THEN <<>>
          ELSE <<[uid |-> k, cls_id |-> 0, conf |-> 90, bbox |-> Box(where[k])]>>)
         \o TrackedDetections(where, k + 1)

(* ---------------- state_lock ---------------- *)
(* threading.Lock.acquire: the lock is not reentrant, so acquiring a held
   lock blocks, also for the thread that holds it *)
Acquire(lock) ==
    IF lock = "free" THEN [acquired |-> TRUE, lock |-> "held"]
    ELSE [acquired |-> FALSE, lock |-> lock]

(* update_statistics, called with the lock state its caller leaves: its
   own "with state_lock" either runs and releases, or blocks *)
update_statistics(lock) ==
    IF Acquire(lock).acquired THEN [returned |-> TRUE, lock |-> "free"]
    ELSE [returned |-> FALSE, lock |-> lock]

(* ---------------- actions ---------------- *)
Init ==
    /\ now = Clock0
    /\ persons = <<>>
    /\ groups = <<>>
    /\ tickets = <<>>
    /\ guards = <<>>
    /\ queue = <<>>
    /\ state_lock = "free"
    /\ pc = "idle"
    /\ uuid_counter = 0
    /\ visits = [k \in 1..NumTracks |-> 0]
    /\ person_states = <<>>
    /\ guard_states = <<>>
    /\ decision = NoDecision
    /\ recent_in_ga = <<>>
    /\ TrackerConstructed(30, 3)
    /\ GateConstructed
    /\ ReplicaConstructed
    /\ DedupConstructed

(* track k comes into view in this frame *)
Enters(where, k) == where[k] # Absent /\ ~HasPerson(persons, k)

(* one frame of the ticket manager on persons keyed by a stable id (the
   "stable ID tracking" that the comment at process_detections line 902
   asks for): the critical section of process_detections, from the build
   of current_persons to check_escalation_conditions, with the id of the
   detection's track where the code draws uuid4.  Everything else is the
   code's: first_seen is set to the time of the frame for every detection
   and is not among the fields carried over from the existing Person.
   ProcessDetections below is the function as it is wired, uuid4 and
   update_statistics included. *)
FrameOf(dts, wheres, max_tickets, max_visits) ==
    \E dt \in dts, where \in wheres :
        LET t == now + dt
            P == PersonsAfter(persons, TrackedDetections(where, 1), t)
            M == TicketPipeline(P, Manager, t)
        IN  /\ pc = "idle"
            /\ Acquire(state_lock).acquired
            /\ t <= MaxTime
            /\ Len(M.tickets) <= max_tickets
            /\ \A k \in 1..NumTracks : Enters(where, k) => visits[k] < max_visits
            /\ visits' = [k \in 1..NumTracks |->
                              IF Enters(where, k) THEN visits[k] + 1 ELSE visits[k]]
            /\ now' = t
            /\ persons' = P
            /\ groups' = M.groups
            /\ tickets' = M.tickets
            /\ guards' = M.guards
            /\ queue' = M.queue
            /\ UNCHANGED <<state_lock, pc, uuid_counter, fsm_vars, tracker_vars, gate_vars, replica, dedup_vars>>

Frame == FrameOf(FrameDts, Wheres, MaxTickets, MaxVisits)

(* cancel_ticket(ticket_id) with the request's reason *)
cancel_ticket(ticket_id, reason, M, t) ==
    IF ticket_id \in 1..Len(M.tickets)
    THEN LET g == M.tickets[ticket_id].assigned_guard
             M1 == [M EXCEPT !.tickets[ticket_id].status = "CANCELLED",
                             !.tickets[ticket_id].escalated_reason = reason,
                             !.tickets[ticket_id].completed_at = t,
                             !.queue = ListRemove(@, ticket_id)]
         IN  IF g # None /\ g \in 1..Len(M.guards)
             THEN [M1 EXCEPT !.guards[g].current_ticket = None]
             ELSE M1
    ELSE M

CancelDts == {0, 3}

CancelTicket ==
    \E ticket_id \in 1..MaxTickets, dt \in CancelDts :
        LET t == now + dt
            M == cancel_ticket(ticket_id, "Manual cancellation", Manager, t)
        IN  /\ pc = "idle"
            /\ Acquire(state_lock).acquired
            /\ t <= MaxTime
            /\ now' = t
            /\ groups' = M.groups
            /\ tickets' = M.tickets
            /\ guards' = M.guards
            /\ queue' = M.queue
            /\ UNCHANGED <<persons, state_lock, pc, uuid_counter, visits, fsm_vars, tracker_vars, gate_vars, replica, dedup_vars>>

Next == Frame \/ CancelTicket

Spec == Init /\ [][Next]_vars


(* ---------------- process_detections as it is wired, continued ---------------- *)
DetectionClasses == {0, 2}
DetectionConfs == {50, 90}

RawDetections ==
    [cls_id : DetectionClasses, conf : DetectionConfs, bbox : {Box(c) : c \in Places}]

(* the ids of a tracker: a detection is given the id of its place in the
   frame's list, the same in every frame *)
WithUuids_stable(raw, base) ==
    [i \in 1..Len(raw) |->
        [uid |-> i, cls_id |-> raw[i].cls_id, conf |-> raw[i].conf, bbox |-> raw[i].bbox]]

(* every detection is given a fresh uuid4 *)
WithUuids(raw, base) ==
    [i \in 1..Len(raw) |->
        [uid |-> base + i, cls_id |-> raw[i].cls_id, conf |-> raw[i].conf, bbox |-> raw[i].bbox]]

(* process_detections: the whole call, from "with state_lock" to the call
   of update_statistics inside the critical section *)
ProcessDetections ==
    \E dt \in FrameDts, n \in 0..MaxDetections :
      \E raw \in [1..n -> RawDetections] :
        LET t == now + dt
            dets == WithUuids(raw, uuid_counter)
            P == PersonsAfter(persons, dets, t)
            M == TicketPipeline(P, Manager, t)
            held == Acquire(state_lock)
            stats == update_statistics(held.lock)
        IN  /\ pc = "idle"
            /\ held.acquired
            /\ t <= MaxTime
            /\ Len(M.tickets) <= MaxTickets
            /\ now' = t
            /\ persons' = P
            /\ groups' = M.groups
            /\ tickets' = M.tickets
            /\ guards' = M.guards
            /\ queue' = M.queue
            /\ uuid_counter' = uuid_counter + n
            /\ state_lock' = IF stats.returned THEN "free" ELSE stats.lock
            /\ pc' = IF stats.returned THEN "idle" ELSE "update_statistics"
            /\ UNCHANGED <<visits, fsm_vars, tracker_vars, gate_vars, replica, dedup_vars>>

NextPD == ProcessDetections \/ CancelTicket

SpecPD == Init /\ [][NextPD]_vars


(* ---------------- tickets that wait while nothing is detected ---------------- *)
(* the ticket manager with one or two WAITING tickets whose groups have
   left and no guard: every frame has no detection, so that of the
   calls of process_detections only check_escalation_conditions acts *)
EscMaxReady == 3
EscMaxTime == 50
EscStart == 43

EscTicketChoices ==
    {NewTicket("group", <<1, 2>>, c, r, examination_mode, "group_id") :
         r \in 1..EscMaxReady, c \in 1..EscMaxReady}

EscTicketLists ==
    {<<a>> : a \in EscTicketChoices}
    \cup {<<a, b>> : a \in EscTicketChoices, b \in EscTicketChoices}

InitEsc ==
    /\ now = EscStart
    /\ persons = <<>>
    /\ groups = <<>>
    /\ tickets \in {T \in EscTicketLists :
                       /\ \A i \in 1..Len(T) : T[i].ready_at <= T[i].created_at
                       /\ \A i \in 1..(Len(T) - 1) : T[i].created_at <= T[i+1].created_at}
    /\ guards = <<>>
    /\ queue = [i \in 1..Len(tickets) |-> i]
    /\ state_lock = "free"
    /\ pc = "idle"
    /\ uuid_counter = 0
    /\ visits = [k \in 1..NumTracks |-> 0]
    /\ person_states = <<>>
    /\ guard_states = <<>>
    /\ decision = NoDecision
    /\ recent_in_ga = <<>>
    /\ TrackerConstructed(30, 3)
    /\ GateConstructed
    /\ ReplicaConstructed
    /\ DedupConstructed

EscDts == {1, 2}

(* a frame without detections *)
QuietFrame ==
    \E dt \in EscDts :
        LET t == now + dt
            P == PersonsAfter(persons, <<>>, t)
            M == TicketPipeline(P, Manager, t)
        IN  /\ pc = "idle"
            /\ Acquire(state_lock).acquired
            /\ t <= EscMaxTime
            /\ now' = t
            /\ persons' = P
            /\ groups' = M.groups
            /\ tickets' = M.tickets
            /\ guards' = M.guards
            /\ queue' = M.queue
            /\ UNCHANGED <<state_lock, pc, uuid_counter, visits, fsm_vars, tracker_vars, gate_vars, replica, dedup_vars>>

NextEsc == QuietFrame

SpecEsc == InitEsc /\ [][NextEsc]_vars


(* ======================= fsm_decision.py ======================= *)
(* DecisionEngine: person_states and guard_states are dicts keyed by
   track id (sequences of records here).  time.time() is now, in seconds;
   the timers that accumulate the dt argument count milliseconds;
   distances and IoU are in hundredths.  Of PersonState, the fields
   state_entered_at, contact_count, in_occlusion and occlusion_started_at
   are written but never read by the engine and are left out. *)
Infinity == 1000000

(* config defaults *)
multi_frame_consensus == 3
person_min_dwell_s == 6000
guard_min_dwell_s == 3000
interaction_min_overlap_s == 1200
session_timeout_s == 8
CooldownDuration == 10
(* scoring, in thousandths *)
scoring_base == 600
contact_bonus == 200
pose_bonus == 150
reid_persistence_bonus == 50
scoring_threshold == 900
center_dist_scale == 35
iou_min == 3
(* the confidences of _calculate_score are fractions with denominators
   center_dist_scale, 3 * iou_min and 10: scores are counted in units of
   1 / (1000 * ConfOne), where every confidence is a whole number *)
ConfOne == center_dist_scale * 3 * iou_min * 10
ScoreOne == 1000 * ConfOne

HasState(S, track_id) == \E i \in 1..Len(S) : S[i].track_id = track_id

StateOf(S, track_id) == S[CHOOSE i \in 1..Len(S) : S[i].track_id = track_id]

PutState(S, st) ==
    IF HasState(S, st.track_id)
    THEN [i \in 1..Len(S) |-> IF S[i].track_id = st.track_id THEN st ELSE S[i]]
    ELSE Append(S, st)

(* PersonState(track_id=track_id), created at time t *)
NewPersonState(track_id, t) ==
    [track_id |-> track_id,
     current_state |-> "IDLE",
     dwell_in_ga |-> 0,
     guard_overlap_time |-> 0,
     interaction_time |-> 0,
     session_started_at |-> None,
     last_update_at |-> t,
     in_gate_area |-> FALSE,
     guard_assigned |-> None,
     pose_reach_count |-> 0,
     min_center_distance |-> Infinity,
     max_iou |-> 0,
     consecutive_in_ga |-> 0,
     consecutive_out_ga |-> 0,
     consecutive_contact |-> 0,
     consecutive_no_contact |-> 0,
     completion_score |-> 0,
     cooldown_until |-> None]

(* PersonState.reset: cooldown_until and last_update_at are not reset *)
reset(state) ==
    [state EXCEPT !.current_state = "IDLE",
                  !.dwell_in_ga = 0,
                  !.guard_overlap_time = 0,
                  !.interaction_time = 0,
                  !.session_started_at = None,
                  !.in_gate_area = FALSE,
                  !.guard_assigned = None,
                  !.pose_reach_count = 0,
                  !.min_center_distance = Infinity,
                  !.max_iou = 0,
                  !.consecutive_in_ga = 0,
                  !.consecutive_out_ga = 0,
                  !.consecutive_contact = 0,
                  !.consecutive_no_contact = 0,
                  !.completion_score = 0]

is_in_cooldown(state, t) == state.cooldown_until # None /\ t < state.cooldown_until

session_duration(state, t) ==
    IF state.session_started_at = None THEN 0 ELSE t - state.session_started_at

(* guard_state and guard_state.is_qualified, for the guard_track_id argument *)
GuardQualified(GS, guard_track_id) ==
    /\ guard_track_id # None
    /\ HasState(GS, guard_track_id)
    /\ StateOf(GS, guard_track_id).is_qualified

_update_timers(state, GS, in_gate_area, guard_track_id, is_in_contact, dt) ==
    [state EXCEPT !.dwell_in_ga = IF in_gate_area THEN @ + dt ELSE @,
                  !.guard_overlap_time = IF GuardQualified(GS, guard_track_id)
                                         THEN @ + dt ELSE @,
                  !.interaction_time = IF is_in_contact THEN @ + dt ELSE @]

(* contact_metrics is {} (the empty tuple here) or holds both keys *)
_update_metrics(state, contact_metrics, pose_detected) ==
    [state EXCEPT !.min_center_distance = IF contact_metrics = <<>> THEN @
                                          ELSE Min(@, contact_metrics[1]),
                  !.max_iou = IF contact_metrics = <<>> THEN @
                              ELSE Max(@, contact_metrics[2]),
                  !.pose_reach_count = IF pose_detected THEN @ + 1 ELSE @]

(* the counters without the reset of the opposite one: frames in the gate
   area are counted, consecutive or not *)
UpdateHysteresisCounting(state, in_gate_area, guard_track_id, is_in_contact) ==
    [state EXCEPT !.consecutive_in_ga = IF in_gate_area THEN @ + 1 ELSE @,
                  !.consecutive_out_ga = IF in_gate_area THEN @ ELSE @ + 1,
                  !.consecutive_contact = IF is_in_contact THEN @ + 1 ELSE 0,
                  !.consecutive_no_contact = IF is_in_contact THEN 0 ELSE @ + 1,
                  !.in_gate_area = in_gate_area,
                  !.guard_assigned = guard_track_id]

(* the hysteresis counters and the state flags of update_person *)
UpdateHysteresis(state, in_gate_area, guard_track_id, is_in_contact) ==
    [state EXCEPT !.consecutive_in_ga = IF in_gate_area THEN @ + 1 ELSE 0,
                  !.consecutive_out_ga = IF in_gate_area THEN 0 ELSE @ + 1,
                  !.consecutive_contact = IF is_in_contact THEN @ + 1 ELSE 0,
                  !.consecutive_no_contact = IF is_in_contact THEN 0 ELSE @ + 1,
                  !.in_gate_area = in_gate_area,
                  !.guard_assigned = guard_track_id]

(* the transitions with the presence consensus left out of the guard branch:
   a qualified guard moves a person to GUARD_PRESENT from IDLE as well *)
NextCheckStateFromIdle(state, GS, guard_track_id, is_in_contact, pose_detected) ==
    LET min_consensus == multi_frame_consensus
        current == state.current_state
    IN  CASE current \in {"IDLE", "PRESENT_IN_GA"} ->
                 IF state.consecutive_out_ga >= min_consensus THEN "IDLE"
                 ELSE IF GuardQualified(GS, guard_track_id) THEN "GUARD_PRESENT"
                 ELSE IF state.consecutive_in_ga >= min_consensus THEN "PRESENT_IN_GA"
                 ELSE current
          [] current = "GUARD_PRESENT" ->
                 IF guard_track_id = None THEN "PRESENT_IN_GA"
                 ELSE IF state.consecutive_out_ga >= min_consensus THEN "IDLE"
                 ELSE IF state.consecutive_contact >= min_consensus \/ pose_detected
                      THEN "INTERACTION_WINDOW"
                 ELSE current
          [] current = "INTERACTION_WINDOW" ->
                 IF state.consecutive_no_contact >= min_consensus * 2 THEN "GUARD_PRESENT"
                 ELSE IF state.consecutive_out_ga >= min_consensus THEN "IDLE"
                 ELSE current
          [] OTHER -> current

(* the state _process_fsm_transitions moves to *)
NextCheckState(state, GS, guard_track_id, is_in_contact, pose_detected) ==
    LET min_consensus == multi_frame_consensus
        current == state.current_state
    IN  CASE current = "IDLE" ->
                 IF state.consecutive_in_ga >= min_consensus THEN "PRESENT_IN_GA"
                 ELSE current
          [] current = "PRESENT_IN_GA" ->
                 IF state.consecutive_out_ga >= min_consensus THEN "IDLE"
                 ELSE IF GuardQualified(GS, guard_track_id) THEN "GUARD_PRESENT"
                 ELSE current
          [] current = "GUARD_PRESENT" ->
                 IF guard_track_id = None THEN "PRESENT_IN_GA"
                 ELSE IF state.consecutive_out_ga >= min_consensus THEN "IDLE"
                 ELSE IF state.consecutive_contact >= min_consensus \/ pose_detected
                      THEN "INTERACTION_WINDOW"
                 ELSE current
          [] current = "INTERACTION_WINDOW" ->
                 IF state.consecutive_no_contact >= min_consensus * 2 THEN "GUARD_PRESENT"
                 ELSE IF state.consecutive_out_ga >= min_consensus THEN "IDLE"
                 ELSE current
          [] OTHER -> current

(* the transitions with an exit from CHECK_COMPLETED: a completed person
   that has left the gate area goes back to IDLE *)
_process_fsm_transitions_leaving(state, GS, guard_track_id, is_in_contact, pose_detected) ==
    [state EXCEPT !.current_state =
        IF state.current_state = "CHECK_COMPLETED"
           /\ state.consecutive_out_ga >= multi_frame_consensus
        THEN "IDLE"
        ELSE NextCheckState(state, GS, guard_track_id, is_in_contact, pose_detected)]

_process_fsm_transitions(state, GS, guard_track_id, is_in_contact, pose_detected) ==
    [state EXCEPT !.current_state =
        NextCheckState(state, GS, guard_track_id, is_in_contact, pose_detected)]

(* the score without its clamps: every confidence taken as computed *)
_calculate_score_unclamped(state, t) ==
    LET contact_conf ==
            IF state.min_center_distance < Infinity
            THEN ConfOne - state.min_center_distance * (ConfOne \div center_dist_scale)
            ELSE 0
        iou_conf == state.max_iou * (ConfOne \div (iou_min * 3))
        pose_conf == state.pose_reach_count * (ConfOne \div 10)
        persistence_conf == session_duration(state, t) * (ConfOne \div 10)
    IN  scoring_base * ConfOne
        + (IF state.interaction_time > 0
           THEN contact_bonus * Max(contact_conf, iou_conf) ELSE 0)
        + (IF state.pose_reach_count > 0 THEN pose_bonus * pose_conf ELSE 0)
        + reid_persistence_bonus * persistence_conf

_calculate_score(state, t) ==
    LET contact_conf ==
            IF state.min_center_distance < Infinity
            THEN Max(0, ConfOne
                        - state.min_center_distance * (ConfOne \div center_dist_scale))
            ELSE 0
        iou_conf == Min(ConfOne, state.max_iou * (ConfOne \div (iou_min * 3)))
        pose_conf == Min(ConfOne, state.pose_reach_count * (ConfOne \div 10))
        persistence_conf == Min(ConfOne, session_duration(state, t) * (ConfOne \div 10))
        score == scoring_base * ConfOne
                 + (IF state.interaction_time > 0
                    THEN contact_bonus * Max(contact_conf, iou_conf) ELSE 0)
                 + (IF state.pose_reach_count > 0 THEN pose_bonus * pose_conf ELSE 0)
                 + reid_persistence_bonus * persistence_conf
    IN  Min(ScoreOne, score)

(* the completion check with the score compared strictly *)
_check_completion_criteria_above(state, t) ==
    IF is_in_cooldown(state, t)
       \/ state.current_state \notin {"GUARD_PRESENT", "INTERACTION_WINDOW"}
    THEN [state |-> state, completed |-> FALSE]
    ELSE LET score == _calculate_score(state, t)
             scored == [state EXCEPT !.completion_score = score]
             all_met == /\ state.dwell_in_ga >= person_min_dwell_s
                        /\ state.guard_overlap_time >= guard_min_dwell_s
                        /\ state.interaction_time >= interaction_min_overlap_s
                        /\ score > scoring_threshold * ConfOne
         IN  IF all_met
             THEN [state |-> [scored EXCEPT !.current_state = "CHECK_COMPLETED",
                                            !.cooldown_until = t + CooldownDuration],
                   completed |-> TRUE]
             ELSE [state |-> scored, completed |-> FALSE]

(* _check_completion_criteria: the PersonState after the call and
   result['completed'] *)
_check_completion_criteria(state, t) ==
    IF is_in_cooldown(state, t)
       \/ state.current_state \notin {"GUARD_PRESENT", "INTERACTION_WINDOW"}
    THEN [state |-> state, completed |-> FALSE]
    ELSE LET score == _calculate_score(state, t)
             scored == [state EXCEPT !.completion_score = score]
             all_met == /\ state.dwell_in_ga >= person_min_dwell_s
                        /\ state.guard_overlap_time >= guard_min_dwell_s
                        /\ state.interaction_time >= interaction_min_overlap_s
                        /\ score >= scoring_threshold * ConfOne
         IN  IF all_met
             THEN [state |-> [scored EXCEPT !.current_state = "CHECK_COMPLETED",
                                            !.cooldown_until = t + CooldownDuration],
                   completed |-> TRUE]
             ELSE [state |-> scored, completed |-> FALSE]

(* update_person up to the FSM transitions: the PersonState handed to
   _check_completion_criteria *)
BeforeCompletionCheck(PS, GS, track_id, in_gate_area, guard_track_id, is_in_contact, contact_metrics, pose_detected, dt, t) ==
    LET state0 == IF HasState(PS, track_id) THEN StateOf(PS, track_id)
                  ELSE NewPersonState(track_id, t)
        state1 == [state0 EXCEPT !.last_update_at = t,
                                 !.session_started_at =
                                     IF in_gate_area /\ @ = None THEN t ELSE @]
        state2 == _update_timers(state1, GS, in_gate_area, guard_track_id, is_in_contact, dt)
        state3 == _update_metrics(state2, contact_metrics, pose_detected)
        state4 == UpdateHysteresis(state3, in_gate_area, guard_track_id, is_in_contact)
    IN  _process_fsm_transitions(state4, GS, guard_track_id, is_in_contact, pose_detected)

(* update_person at time t: the person_states after the call and the
   decision it returns *)
update_person(PS, GS, track_id, in_gate_area, guard_track_id, is_in_contact, contact_metrics, pose_detected, dt, t) ==
    LET prev_state == IF HasState(PS, track_id) THEN StateOf(PS, track_id).current_state
                      ELSE "IDLE"
        completion ==
            _check_completion_criteria(
                BeforeCompletionCheck(PS, GS, track_id, in_gate_area, guard_track_id,
                                      is_in_contact, contact_metrics, pose_detected, dt, t),
                t)
    IN  [person_states |-> PutState(PS, completion.state),
         decision |-> [track_id |-> track_id,
                       prev_state |-> prev_state,
                       state |-> completion.state.current_state,
                       completed |-> completion.completed]]

guard_logic_mode == "either"

NewGuardState(track_id) ==
    [track_id |-> track_id, dwell_in_anchor |-> 0, dwell_in_ga |-> 0,
     in_anchor |-> FALSE, in_gate_area |-> FALSE, is_qualified |-> FALSE]

(* update_guard under the guard_anchor_logic mode, with
   GuardState.update_presence; an unknown mode leaves is_qualified alone *)
update_guard_in(mode, GS, track_id, in_anchor, in_gate_area, dt) ==
    LET g0 == IF HasState(GS, track_id) THEN StateOf(GS, track_id)
              ELSE NewGuardState(track_id)
        g1 == [g0 EXCEPT !.dwell_in_anchor = IF in_anchor THEN @ + dt ELSE @,
                         !.dwell_in_ga = IF in_gate_area THEN @ + dt ELSE @,
                         !.in_anchor = in_anchor,
                         !.in_gate_area = in_gate_area]
        qualified ==
            CASE mode = "strict_anchor" ->
                     g1.dwell_in_anchor >= guard_min_dwell_s
              [] mode = "either" ->
                     \/ g1.dwell_in_anchor >= guard_min_dwell_s
                     \/ (g1.in_gate_area /\ g1.dwell_in_ga >= guard_min_dwell_s)
              [] mode = "no_anchor" -> TRUE
              [] OTHER -> g1.is_qualified
    IN  PutState(GS, [g1 EXCEPT !.is_qualified = qualified])

(* update_guard with the default mode *)
update_guard(GS, track_id, in_anchor, in_gate_area, dt) ==
    update_guard_in(guard_logic_mode, GS, track_id, in_anchor, in_gate_area, dt)

(* check_session_timeout with the timeout reached only after more than
   session_timeout_s *)
check_session_timeout_above(PS, track_id, t) ==
    IF ~HasState(PS, track_id) THEN [person_states |-> PS, timed_out |-> FALSE]
    ELSE IF t - StateOf(PS, track_id).last_update_at > session_timeout_s
         THEN [person_states |-> PutState(PS, reset(StateOf(PS, track_id))),
               timed_out |-> TRUE]
         ELSE [person_states |-> PS, timed_out |-> FALSE]

(* check_session_timeout at time t: the person_states after the call and
   the value returned *)
check_session_timeout(PS, track_id, t) ==
    IF ~HasState(PS, track_id) THEN [person_states |-> PS, timed_out |-> FALSE]
    ELSE IF t - StateOf(PS, track_id).last_update_at >= session_timeout_s
         THEN [person_states |-> PutState(PS, reset(StateOf(PS, track_id))),
               timed_out |-> TRUE]
         ELSE [person_states |-> PS, timed_out |-> FALSE]

(* cleanup_old_states, for one of the two dicts *)
cleanup_old_states(S, active_track_ids) ==
    SelectSeq(S, LAMBDA st : st.track_id \in active_track_ids)

(* the clamp without its lower end: dt = min(dt, 1.0) *)
ClampDtAbove(dt) == Min(dt, 1000)

(* GateChecker.update: dt = max(0.001, min(dt, 1.0)) *)
ClampDt(dt) == Max(1, Min(dt, 1000))

(* ---------------- the engine driven call by call ---------------- *)
FsmMaxTime == 8
FsmMaxGuardDwell == 3000
FsmMaxDwell == 7000
FsmMaxOut == 4

FsmPersons == {1}
FsmGuards == {2}

NearMetrics == <<7, 9>>
FarMetrics == <<50, 0>>

(* the arguments of one update_person call, as GateChecker passes them
   for a person outside the gate area (ObsOut), alone in it, with a guard
   selected, and in contact with the guard with or without the pose
   predicate (ObsContact) *)
ObsOut ==
    [in_gate_area |-> FALSE, guard_track_id |-> None, is_in_contact |-> FALSE,
     contact_metrics |-> <<>>, pose_detected |-> FALSE]

ObsContact(g, pose) ==
    [in_gate_area |-> TRUE, guard_track_id |-> g, is_in_contact |-> TRUE,
     contact_metrics |-> NearMetrics, pose_detected |-> pose]

Observations ==
    {ObsOut,
     [in_gate_area |-> TRUE, guard_track_id |-> None, is_in_contact |-> FALSE,
      contact_metrics |-> <<>>, pose_detected |-> FALSE]}
    \cup {[in_gate_area |-> TRUE, guard_track_id |-> g, is_in_contact |-> FALSE,
           contact_metrics |-> FarMetrics, pose_detected |-> FALSE] : g \in FsmGuards}
    \cup {ObsContact(g, pose) : g \in FsmGuards, pose \in BOOLEAN}

(* the in_gate_area arguments of the last multi_frame_consensus calls *)
Recent(track_id) ==
    IF HasState(recent_in_ga, track_id) THEN StateOf(recent_in_ga, track_id).calls ELSE <<>>

Remember(track_id, in_gate_area) ==
    LET calls == Append(Recent(track_id), in_gate_area)
    IN  PutState(recent_in_ga,
                 [track_id |-> track_id,
                  calls |-> IF Len(calls) > multi_frame_consensus THEN Tail(calls) ELSE calls])

(* GateChecker._decision_layer: one update_person call, with dt clamped
   by GateChecker.update; step is the seconds the clock has moved since
   the last call, max_time the last clock reading looked at *)
UpdatePersonCall(step, track_id, obs, raw_dt, max_time) ==
    LET t == now + step
        r == update_person(person_states, guard_states, track_id, obs.in_gate_area,
                           obs.guard_track_id, obs.is_in_contact, obs.contact_metrics,
                           obs.pose_detected, ClampDt(raw_dt), t)
        after == StateOf(r.person_states, track_id)
    IN  /\ t <= max_time
        /\ after.dwell_in_ga <= FsmMaxDwell
        /\ after.consecutive_out_ga <= FsmMaxOut
        /\ now' = t
        /\ person_states' = r.person_states
        /\ decision' = r.decision
        /\ recent_in_ga' = Remember(track_id, obs.in_gate_area)
        /\ UNCHANGED <<guard_states, manager_vars, tracker_vars, gate_vars, replica, dedup_vars>>

UpdatePersonWith(steps, observations, raw_dts, max_time) ==
    \E step \in steps, track_id \in FsmPersons, obs \in observations, raw_dt \in raw_dts :
        UpdatePersonCall(step, track_id, obs, raw_dt, max_time)

(* GateChecker._decision_layer: one update_guard call for a track in the
   guard anchor *)
UpdateGuardState ==
    \E track_id \in FsmGuards :
        LET GS == update_guard(guard_states, track_id, TRUE, FALSE, ClampDt(1000))
        IN  /\ StateOf(GS, track_id).dwell_in_anchor <= FsmMaxGuardDwell
            /\ guard_states' = GS
            /\ UNCHANGED <<now, person_states, decision, recent_in_ga, manager_vars, tracker_vars, gate_vars, replica, dedup_vars>>

(* GateChecker._decision_layer: check_session_timeout in a later frame *)
CheckSessionTimeoutWith(steps, max_time) ==
    \E step \in steps, track_id \in FsmPersons :
        LET t == now + step
        IN  /\ t <= max_time
            /\ HasState(person_states, track_id)
            /\ now' = t
            /\ person_states' = check_session_timeout(person_states, track_id, t).person_states
            /\ UNCHANGED <<guard_states, decision, recent_in_ga, manager_vars, tracker_vars, gate_vars, replica, dedup_vars>>

(* GateChecker._cleanup_old_states with the confirmed tracks of the frame *)
CleanupOldStates ==
    \E active_track_ids \in SUBSET (FsmPersons \cup FsmGuards) :
        /\ \/ cleanup_old_states(person_states, active_track_ids) # person_states
           \/ cleanup_old_states(guard_states, active_track_ids) # guard_states
        /\ person_states' = cleanup_old_states(person_states, active_track_ids)
        /\ guard_states' = cleanup_old_states(guard_states, active_track_ids)
        /\ UNCHANGED <<now, decision, recent_in_ga, manager_vars, tracker_vars, gate_vars, replica, dedup_vars>>

(* every kind of observation, one call per second at dt = 1.0, or a call
   after a gap of five seconds *)
ClockSteps == {1, 5}

UpdatePerson == UpdatePersonWith(ClockSteps, Observations, {1000}, FsmMaxTime)

CheckSessionTimeout == CheckSessionTimeoutWith(ClockSteps, FsmMaxTime)

NextFSM == UpdatePerson \/ UpdateGuardState \/ CheckSessionTimeout \/ CleanupOldStates

SpecFSM == Init /\ [][NextFSM]_vars

(* a person examined or away, over a longer time: calls within the same
   second and four seconds apart *)
LongMaxTime == 13
LongSteps == {0, 4}

LongObservations == {ObsOut} \cup {ObsContact(g, pose) : g \in FsmGuards, pose \in BOOLEAN}

UpdatePersonSteady == UpdatePersonWith(LongSteps, LongObservations, {1000}, LongMaxTime)

CheckSessionTimeoutLater == CheckSessionTimeoutWith({4}, LongMaxTime)

NextLong == UpdatePersonSteady \/ UpdateGuardState \/ CheckSessionTimeoutLater

SpecLong == Init /\ [][NextLong]_vars

(* the pose source absent: a person in the gate area, in contact with the
   guard selected for it in every call, the pose predicate always false;
   the calls come one or two seconds apart *)
NoPoseMaxTime == 16
NoPoseSteps == {1, 2}

NoPoseObservations == {ObsContact(g, FALSE) : g \in FsmGuards}

UpdatePersonNoPose ==
    UpdatePersonWith(NoPoseSteps, NoPoseObservations, {1000}, NoPoseMaxTime)

NextNoPose == UpdatePersonNoPose \/ UpdateGuardState

SpecNoPose == Init /\ [][NextNoPose]_vars

(* an engine configured with guard_anchor_logic mode strict_anchor: guards
   in and out of the anchor and the gate area, at two frame rates *)
StrictMaxDwell == 4000
StrictDts == {400, 1000}

UpdateGuardStrict ==
    \E track_id \in FsmGuards, in_anchor \in BOOLEAN, in_gate_area \in BOOLEAN,
       dt \in StrictDts :
        LET GS == update_guard_in("strict_anchor", guard_states, track_id, in_anchor,
                                  in_gate_area, ClampDt(dt))
        IN  /\ StateOf(GS, track_id).dwell_in_anchor <= StrictMaxDwell
            /\ StateOf(GS, track_id).dwell_in_ga <= StrictMaxDwell
            /\ guard_states' = GS
            /\ UNCHANGED <<now, person_states, decision, recent_in_ga, manager_vars,
                           tracker_vars, gate_vars, replica, dedup_vars>>

NextStrict == UpdateGuardStrict

SpecStrict == Init /\ [][NextStrict]_vars

(* every dt that GateChecker.update may be given or may compute: negative,
   zero, inside the range and above it *)
TimersMaxTime == 4
RawDts == {0 - 500, 0, 400, 2500}

UpdatePersonAnyDt == UpdatePersonWith({1}, Observations, RawDts, TimersMaxTime)

CheckSessionTimeoutAnyDt ==
    CheckSessionTimeoutWith({1, session_timeout_s}, TimersMaxTime + session_timeout_s)

NextTimers ==
    UpdatePersonAnyDt \/ UpdateGuardState \/ CheckSessionTimeoutAnyDt \/ CleanupOldStates

SpecTimers == Init /\ [][NextTimers]_vars


(* ---------------- the score over its inputs ---------------- *)
(* PersonStates with every combination of the inputs of _calculate_score:
   distances inside and beyond center_dist_scale, IoU below and above
   3 * iou_min, pose counts around 10, sessions not started or started *)
ScoreMaxTime == 21
ScoreDistances == {0, 7, 35, 36, 200, Infinity}
ScoreIous == {0, 3, 9, 10, 100}
ScorePoseCounts == {0, 1, 10, 11, 40}
ScoreInteractionTimes == {0, 1, 1200}

InitScore ==
    /\ now = Clock0
    /\ persons = <<>>
    /\ groups = <<>>
    /\ tickets = <<>>
    /\ guards = <<>>
    /\ queue = <<>>
    /\ state_lock = "free"
    /\ pc = "idle"
    /\ uuid_counter = 0
    /\ visits = [k \in 1..NumTracks |-> 0]
    /\ \E d \in ScoreDistances, iou \in ScoreIous, n \in ScorePoseCounts,
          interaction \in ScoreInteractionTimes, started \in {None, Clock0} :
           person_states = <<[NewPersonState(1, Clock0) EXCEPT
                                  !.min_center_distance = d,
                                  !.max_iou = iou,
                                  !.pose_reach_count = n,
                                  !.interaction_time = interaction,
                                  !.session_started_at = started]>>
    /\ guard_states = <<>>
    /\ decision = NoDecision
    /\ recent_in_ga = <<>>
    /\ TrackerConstructed(30, 3)
    /\ GateConstructed
    /\ ReplicaConstructed
    /\ DedupConstructed

(* _check_completion_criteria, lines 370-375: the score is computed and
   stored, one second or ten seconds later *)
ScorePerson ==
    \E step \in {1, 10} :
        /\ now + step <= ScoreMaxTime
        /\ now' = now + step
        /\ person_states' =
               [i \in 1..Len(person_states) |->
                   [person_states[i] EXCEPT
                       !.completion_score = _calculate_score(person_states[i], now + step)]]
        /\ UNCHANGED <<guard_states, decision, recent_in_ga, manager_vars, tracker_vars, gate_vars, replica, dedup_vars>>

NextScore == ScorePerson

SpecScore == InitScore /\ [][NextScore]_vars


(* ======================= tracking_system.py ======================= *)
(* A bbox is <<x1, y1, x2, y2>> in units that keep centers, sizes and the
   velocities of the boxes used here whole numbers; a confidence is in
   hundredths; IoU thresholds are in tenths. *)
iou_threshold == 3
low_conf_iou_threshold == 4
confirm_hits == 3
delete_after == 30
velocity_window == 5

Abs(x) == IF x < 0 THEN 0 - x ELSE x

LastN(s, n) == IF Len(s) <= n THEN s ELSE SubSeq(s, Len(s) - n + 1, Len(s))

(* Track.center *)
center(bbox) == <<(bbox[1] + bbox[3]) \div 2, (bbox[2] + bbox[4]) \div 2>>

(* Track(...) with __post_init__; position_history keeps the
   velocity_window entries that velocity reads *)
NewTrack(track_id, det) ==
    [track_id |-> track_id,
     bbox |-> det.bbox,
     confidence |-> det.conf,
     hits |-> 1,
     time_since_update |-> 0,
     position_history |-> <<center(det.bbox)>>,
     is_confirmed |-> FALSE,
     is_deleted |-> FALSE]

(* Track.velocity over the entries it reads: <<>> stands for None *)
VelocityOver(recent) ==
    IF Len(recent) < 2 THEN <<>>
    ELSE <<(recent[Len(recent)][1] - recent[1][1]) \div Len(recent),
           (recent[Len(recent)][2] - recent[1][2]) \div Len(recent)>>

velocity(track) == VelocityOver(LastN(track.position_history, velocity_window))

(* Track.update *)
Track_update(track, det) ==
    [track EXCEPT !.bbox = det.bbox,
                  !.confidence = det.conf,
                  !.time_since_update = 0,
                  !.hits = @ + 1,
                  !.position_history = LastN(Append(@, center(det.bbox)), velocity_window),
                  !.is_confirmed = IF track.hits + 1 >= confirm_hits THEN TRUE ELSE @]

(* Track.predict, given the velocity *)
PredictWith(bbox, c, vel, w, h) ==
    IF vel = <<>> THEN bbox
    ELSE <<c[1] + vel[1] - w \div 2, c[2] + vel[2] - h \div 2,
           c[1] + vel[1] + w \div 2, c[2] + vel[2] + h \div 2>>

predict(track) ==
    PredictWith(track.bbox, center(track.bbox), velocity(track),
                track.bbox[3] - track.bbox[1], track.bbox[4] - track.bbox[2])

(* Track.mark_missed *)
mark_missed(track) ==
    [track EXCEPT !.time_since_update = @ + 1,
                  !.is_deleted = IF track.time_since_update + 1 > delete_after THEN TRUE ELSE @]

RECURSIVE GCD(_, _)
GCD(a, b) == IF b = 0 THEN a ELSE GCD(b, a % b)

DivideBy(f, g) == <<f[1] \div g, f[2] \div g>>

(* a fraction <<numerator, denominator>> in lowest terms *)
Reduced(f) == DivideBy(f, GCD(f[1], f[2]))

IouOf(inter_area, union_area) ==
    IF union_area <= 0 THEN <<0, 1>> ELSE Reduced(<<inter_area, union_area>>)

Area(bbox) == (bbox[3] - bbox[1]) * (bbox[4] - bbox[2])

Intersection(bbox1, bbox2) ==
    Max(0, Min(bbox1[3], bbox2[3]) - Max(bbox1[1], bbox2[1]))
    * Max(0, Min(bbox1[4], bbox2[4]) - Max(bbox1[2], bbox2[2]))

UnionArea(bbox1, bbox2, inter_area) == Area(bbox1) + Area(bbox2) - inter_area

(* _compute_iou as the fraction inter_area / union_area; <<0, 1>> when
   the union is empty *)
_compute_iou(bbox1, bbox2) ==
    IouOf(Intersection(bbox1, bbox2),
          UnionArea(bbox1, bbox2, Intersection(bbox1, bbox2)))

IouAtLeast(iou, tenths) == 10 * iou[1] >= tenths * iou[2]

(* the distance of two centers on one horizontal or vertical line *)
Distance(c1, c2) ==
    IF c1[2] = c2[2] THEN Abs(c1[1] - c2[1])
    ELSE IF c1[1] = c2[1] THEN Abs(c1[2] - c2[2])
    ELSE CHOOSE r \in 0..(Abs(c1[1] - c2[1]) + Abs(c1[2] - c2[2])) :
             r * r = (c1[1] - c2[1]) * (c1[1] - c2[1]) + (c1[2] - c2[2]) * (c1[2] - c2[2])

(* _compute_center_distance as the fraction 2 * dist / (h1 + h2), for
   boxes of positive height *)
_compute_center_distance(bbox1, bbox2) ==
    Reduced(<<2 * Distance(center(bbox1), center(bbox2)),
              (bbox1[4] - bbox1[2]) + (bbox2[4] - bbox2[2])>>)

(* cost = 1.0 - iou + center_dist * 0.1, as a fraction *)
CostOf(iou, cd) ==
    Reduced(<<(iou[2] - iou[1]) * 10 * cd[2] + cd[1] * iou[2], iou[2] * 10 * cd[2]>>)

Cost(pred_bbox, det_bbox) ==
    CostOf(_compute_iou(pred_bbox, det_bbox), _compute_center_distance(pred_bbox, det_bbox))

(* a < b for fractions a, b >= 0 with positive denominators, compared by
   their whole parts and then by the reciprocals of their remainders *)
RECURSIVE FractionLess(_, _)
FractionLess(a, b) ==
    IF a[1] \div a[2] # b[1] \div b[2] THEN a[1] \div a[2] < b[1] \div b[2]
    ELSE IF b[1] % b[2] = 0 THEN FALSE
    ELSE IF a[1] % a[2] = 0 THEN TRUE
    ELSE FractionLess(<<b[2], b[1] % b[2]>>, <<a[2], a[1] % a[2]>>)

CostLess(a, b) == FractionLess(a, b)

(* the k-th candidate pair of _associate in the order the loops make
   them, with its cost *)
CandidatePair(T, D, t_idx, d_idx) ==
    [t_idx |-> t_idx, d_idx |-> d_idx, cost |-> Cost(predict(T[t_idx]), D[d_idx].bbox)]

CandidatePairs(T, D) ==
    [k \in 1..(Len(T) * Len(D)) |->
        CandidatePair(T, D, ((k - 1) \div Len(D)) + 1, ((k - 1) % Len(D)) + 1)]

(* the first pair of the lowest cost *)
FirstCheapest(ms) ==
    CHOOSE i \in 1..Len(ms) :
        /\ \A j \in 1..Len(ms) : ~CostLess(ms[j].cost, ms[i].cost)
        /\ \A j \in 1..(i - 1) : CostLess(ms[i].cost, ms[j].cost)

Without(ms, i) == SubSeq(ms, 1, i - 1) \o SubSeq(ms, i + 1, Len(ms))

(* matches.sort(key=cost): a stable sort *)
RECURSIVE SortByCost(_)
SortByCost(ms) ==
    IF ms = <<>> THEN <<>>
    ELSE <<ms[FirstCheapest(ms)]>> \o SortByCost(Without(ms, FirstCheapest(ms)))

Taken(matched, m) == \E q \in SeqToSet(matched) : q[1] = m.t_idx \/ q[2] = m.d_idx

Accepts(m, T, D, threshold) ==
    IouAtLeast(_compute_iou(predict(T[m.t_idx]), D[m.d_idx].bbox), threshold)

(* the greedy assignment over the sorted pairs *)
RECURSIVE GreedyAssign(_, _, _, _, _)
GreedyAssign(ms, T, D, threshold, matched) ==
    IF ms = <<>> THEN matched
    ELSE IF ~Taken(matched, Head(ms)) /\ Accepts(Head(ms), T, D, threshold)
         THEN GreedyAssign(Tail(ms), T, D, threshold,
                           Append(matched, <<Head(ms).t_idx, Head(ms).d_idx>>))
         ELSE GreedyAssign(Tail(ms), T, D, threshold, matched)

Indices(n) == [i \in 1..n |-> i]

(* what _associate returns, given its matched pairs *)
Association(matched, tracks_n, dets_n) ==
    [matched |-> matched,
     unmatched_tracks |->
         SelectSeq(Indices(tracks_n), LAMBDA i : \A q \in SeqToSet(matched) : q[1] # i),
     unmatched_dets |->
         SelectSeq(Indices(dets_n), LAMBDA i : \A q \in SeqToSet(matched) : q[2] # i)]

(* SimpleTracker._associate; indices count from 1 *)
_associate(T, D, threshold) ==
    IF Len(T) = 0 \/ Len(D) = 0
    THEN Association(<<>>, Len(T), Len(D))
    ELSE Association(GreedyAssign(SortByCost(CandidatePairs(T, D)), T, D, threshold, <<>>),
                     Len(T), Len(D))

(* the detection the association gave to track index i, None if none *)
MatchedDet(matched, i) ==
    IF \E q \in SeqToSet(matched) : q[1] = i
    THEN (CHOOSE q \in SeqToSet(matched) : q[1] = i)[2]
    ELSE None

(* the tracks after the updates of an association over the track indices
   idx (the k-th track of the association is T[idx[k]]) *)
UpdateMatched(T, idx, matched, dets) ==
    [i \in 1..Len(T) |->
        IF \E k \in 1..Len(idx) : idx[k] = i /\ MatchedDet(matched, k) # None
        THEN Track_update(T[i],
                          dets[MatchedDet(matched, CHOOSE k \in 1..Len(idx) : idx[k] = i)])
        ELSE T[i]]

(* mark_missed for the tracks neither association matched *)
MarkMissed(T, unmatched_tracks, matched_low) ==
    [i \in 1..Len(T) |->
        IF \E k \in 1..Len(unmatched_tracks) :
               unmatched_tracks[k] = i /\ MatchedDet(matched_low, k) = None
        THEN mark_missed(T[i])
        ELSE T[i]]

CreateTracks(nid, dets, unmatched_dets) ==
    [k \in 1..Len(unmatched_dets) |-> NewTrack(nid + k - 1, dets[unmatched_dets[k]])]

Kept(T) == SelectSeq(T, LAMBDA t : ~t.is_deleted)

Confirmed(T) == SelectSeq(T, LAMBDA t : t.is_confirmed /\ ~t.is_deleted)

TrackerResult(kept, nid) == [tracks |-> kept, next_id |-> nid, returned |-> Confirmed(kept)]

(* SimpleTracker.update after the second association *)
AfterSecond(T1, nid, high_conf_dets, low_conf_dets, first, second) ==
    TrackerResult(
        Kept(MarkMissed(UpdateMatched(T1, first.unmatched_tracks, second.matched,
                                      low_conf_dets),
                        first.unmatched_tracks, second.matched)
             \o CreateTracks(nid, high_conf_dets, first.unmatched_dets)),
        nid + Len(first.unmatched_dets))

Pick(T, idx) == [k \in 1..Len(idx) |-> T[idx[k]]]

(* SimpleTracker.update after the updates of the first association *)
AfterFirstUpdates(T1, nid, high_conf_dets, low_conf_dets, first) ==
    AfterSecond(T1, nid, high_conf_dets, low_conf_dets, first,
                _associate(Pick(T1, first.unmatched_tracks), low_conf_dets,
                           low_conf_iou_threshold))

(* SimpleTracker.update after the first association *)
AfterFirst(T, nid, high_conf_dets, low_conf_dets, first) ==
    AfterFirstUpdates(UpdateMatched(T, Indices(Len(T)), first.matched, high_conf_dets),
                      nid, high_conf_dets, low_conf_dets, first)

HighConf(detections) == SelectSeq(detections, LAMBDA d : d.conf >= 50)

LowConf(detections) == SelectSeq(detections, LAMBDA d : d.conf >= 20 /\ d.conf < 50)

(* SimpleTracker.update: the tracks, next_id and returned list after it *)
SimpleTracker_update(T, nid, detections) ==
    AfterFirst(T, nid, HighConf(detections), LowConf(detections),
               _associate(T, HighConf(detections), iou_threshold))

(* ---------------- the tracker driven frame by frame ---------------- *)
(* at most TrkMaxNextId - 1 tracks are ever created, a track is matched
   up to TrkMaxHits times, and two tracks at once are followed through
   absences of up to TrkMaxQuietPair frames; a single track is followed
   until it is deleted *)
TrkMaxNextId == 3
TrkMaxHits == 4
TrkMaxQuietPair == 2

BoxA == <<0, 0, 240, 480>>
BoxShifted == <<120, 0, 360, 480>>
BoxStride2 == <<300, 0, 540, 480>>
BoxStride3 == <<520, 0, 760, 480>>
BoxB == <<1200, 0, 1440, 480>>

Det(bbox, conf) == [bbox |-> bbox, conf |-> conf, cls |-> "person"]

(* the detection lists of a frame: none, one detection at high, low or
   negligible confidence, one moved by half a box, one moved on by longer
   and longer strides, one elsewhere, two apart and two overlapping *)
TrackerDetections ==
    {<<>>, <<Det(BoxA, 90)>>, <<Det(BoxA, 30)>>, <<Det(BoxA, 10)>>,
     <<Det(BoxShifted, 90)>>, <<Det(BoxStride2, 90)>>, <<Det(BoxStride3, 90)>>,
     <<Det(BoxB, 90)>>,
     <<Det(BoxA, 90), Det(BoxB, 90)>>, <<Det(BoxA, 90), Det(BoxShifted, 90)>>}

TrackerMaxAges == {2, 30, 40}
TrackerMinHits == {3, 5}

InitTracker ==
    /\ now = Clock0
    /\ persons = <<>>
    /\ groups = <<>>
    /\ tickets = <<>>
    /\ guards = <<>>
    /\ queue = <<>>
    /\ state_lock = "free"
    /\ pc = "idle"
    /\ uuid_counter = 0
    /\ visits = [k \in 1..NumTracks |-> 0]
    /\ person_states = <<>>
    /\ guard_states = <<>>
    /\ decision = NoDecision
    /\ recent_in_ga = <<>>
    /\ \E age \in TrackerMaxAges, hits \in TrackerMinHits : TrackerConstructed(age, hits)
    /\ GateConstructed
    /\ ReplicaConstructed
    /\ DedupConstructed

(* the tracker takes the result r of an update, within the bounds *)
TrackerStep(r) ==
    /\ r.next_id <= TrkMaxNextId
    /\ \A i \in 1..Len(r.tracks) : r.tracks[i].hits <= TrkMaxHits
    /\ Len(r.tracks) > 1 =>
           \A i \in 1..Len(r.tracks) : r.tracks[i].time_since_update <= TrkMaxQuietPair
    /\ tracks' = r.tracks
    /\ next_id' = r.next_id
    /\ returned' = r.returned

UpdateTracker ==
    \E detections \in TrackerDetections :
        /\ TrackerStep(SimpleTracker_update(tracks, next_id, detections))
        /\ UNCHANGED <<now, manager_vars, fsm_vars, max_age, min_hits, gate_vars, replica, dedup_vars>>

NextTracker == UpdateTracker

SpecTracker == InitTracker /\ [][NextTracker]_vars

(* ======================= gate_sop_checker.py ======================= *)
(* The GateChecker with the SimplePoseEstimator, whose detect_hand_to_torso
   never detects.  The zones are open rectangles <<x1, y1, x2, y2>> in the
   units of the boxes; time.time() is read once per frame, as now. *)
guard_anchor_zone == <<0, 0, 200, 480>>
gate_area_zone == <<200, 0, 1000, 480>>
min_box_height == 40
event_window_s == 2
jitter_window == 5

(* GateChecker._filter_detections *)
_filter_detections(detections) ==
    SelectSeq(detections,
              LAMBDA d : d.cls = "person" /\ d.bbox[4] - d.bbox[2] >= min_box_height)

(* ZoneManager.point_in_zone: the point is in the interior of the zone *)
point_in_zone(point, zone) ==
    /\ zone[1] < point[1] /\ point[1] < zone[3]
    /\ zone[2] < point[2] /\ point[2] < zone[4]

(* JitterFilter.add_position for every track of the frame *)
RECURSIVE AddPositions(_, _, _)
AddPositions(H, R, k) ==
    IF k > Len(R) THEN H
    ELSE AddPositions(
             PutState(H, [track_id |-> R[k].track_id,
                          positions |->
                              LastN(Append(IF HasState(H, R[k].track_id)
                                           THEN StateOf(H, R[k].track_id).positions
                                           ELSE <<>>,
                                           center(R[k].bbox)),
                                    2 * jitter_window)]),
             R, k + 1)

(* the last value of savgol_filter(x, 5, 2): the quadratic fitted to the
   five values, at the last of them *)
SavgolLast(x) == (3 * x[1] - 5 * x[2] - 3 * x[3] + 9 * x[4] + 31 * x[5]) \div 35

Coordinates(positions, c) == [i \in 1..Len(positions) |-> positions[i][c]]

(* JitterFilter.get_smoothed_position *)
get_smoothed_position(positions) ==
    IF Len(positions) < jitter_window THEN positions[Len(positions)]
    ELSE <<SavgolLast(Coordinates(LastN(positions, jitter_window), 1)),
           SavgolLast(Coordinates(LastN(positions, jitter_window), 2))>>

(* ProximityCalculator.are_in_contact: center_distance and iou in
   hundredths, whole numbers for the boxes used here *)
are_in_contact(bbox1, bbox2) ==
    [in_contact |->
         \/ 200 * Distance(center(bbox1), center(bbox2))
                <= center_dist_scale * ((bbox1[4] - bbox1[2]) + (bbox2[4] - bbox2[2]))
         \/ /\ UnionArea(bbox1, bbox2, Intersection(bbox1, bbox2)) > 0
            /\ 100 * Intersection(bbox1, bbox2)
                   >= iou_min * UnionArea(bbox1, bbox2, Intersection(bbox1, bbox2)),
     center_distance |->
         (200 * Distance(center(bbox1), center(bbox2)))
             \div ((bbox1[4] - bbox1[2]) + (bbox2[4] - bbox2[2])),
     iou |->
         IF UnionArea(bbox1, bbox2, Intersection(bbox1, bbox2)) <= 0 THEN 0
         ELSE (100 * Intersection(bbox1, bbox2))
                  \div UnionArea(bbox1, bbox2, Intersection(bbox1, bbox2))]

(* the analysis of one track, without its proximity entries *)
TrackAnalysis(track, smoothed_center) ==
    [track_id |-> track.track_id,
     bbox |-> track.bbox,
     center |-> smoothed_center,
     in_gate_area |-> point_in_zone(smoothed_center, gate_area_zone),
     in_guard_anchor |-> point_in_zone(smoothed_center, guard_anchor_zone)]

(* GateChecker._analyze_tracks, for the confirmed tracks R of the frame *)
_analyze_tracks(R, H) ==
    [k \in 1..Len(R) |->
        TrackAnalysis(R[k], get_smoothed_position(StateOf(H, R[k].track_id).positions))]

TrackIdsOf(A) == {A[k].track_id : k \in 1..Len(A)}

IndexOf(A, track_id) == CHOOSE k \in 1..Len(A) : A[k].track_id = track_id

(* other_id in analysis[track_id]['proximity']: the pair loop stores the
   proximity of a pair of tracks i < j under the first track only *)
HasProximity(A, track_id, other_id) ==
    /\ HasState(A, track_id)
    /\ HasState(A, other_id)
    /\ IndexOf(A, track_id) < IndexOf(A, other_id)

(* analysis[track_id]['proximity'][other_id] *)
Proximity(A, track_id, other_id) ==
    are_in_contact(StateOf(A, track_id).bbox, StateOf(A, other_id).bbox)

(* EventLogger.get_events_for_track(track_id, [event_type], since) is not
   empty *)
HasRecentEvent(E, track_id, event_type, since) ==
    \E i \in 1..Len(E) :
        /\ E[i].track_id = track_id \/ E[i].related_track_id = track_id
        /\ E[i].event_type = event_type
        /\ E[i].timestamp >= since

(* EventLogger.create_event *)
create_event(E, event_type, track_id, related_track_id, t) ==
    Append(E, [event_type |-> event_type, timestamp |-> t, track_id |-> track_id,
               related_track_id |-> related_track_id])

EventIfNew(E, present, event_type, track_id, t) ==
    IF present /\ ~HasRecentEvent(E, track_id, event_type, t - event_window_s)
    THEN create_event(E, event_type, track_id, None, t)
    ELSE E

(* the keys of the proximity entries of the analysis that say in_contact:
   the pairs update_contact is called with *)
ContactKeys(A) ==
    {key \in TrackIdsOf(A) \X TrackIdsOf(A) :
        HasProximity(A, key[1], key[2]) /\ Proximity(A, key[1], key[2]).in_contact}

(* EventLogger.update_contact for the proximity entries of track k from
   entry j on: a key that is not in active_contacts C is started, which
   logs contact_started; the events of the logger after it *)
RECURSIVE UpdateContactsOf(_, _, _, _, _, _)
UpdateContactsOf(A, E, C, k, j, t) ==
    IF j > Len(A) THEN E
    ELSE UpdateContactsOf(
             A,
             IF Proximity(A, A[k].track_id, A[j].track_id).in_contact
                /\ <<A[k].track_id, A[j].track_id>> \notin C
             THEN create_event(E, "contact_started", A[k].track_id, A[j].track_id, t)
             ELSE E,
             C, k, j + 1, t)

(* EventLogger.active_contacts after the event layer: nothing in
   GateChecker calls end_contact *)
update_contact(A, C) == C \cup ContactKeys(A)

(* GateChecker._event_layer from track k of the analysis on, with the
   active contacts C of the frame before: the events of the logger after
   it *)
RECURSIVE _event_layer(_, _, _, _, _)
_event_layer(A, E, C, k, t) ==
    IF k > Len(A) THEN E
    ELSE _event_layer(
             A,
             UpdateContactsOf(
                 A,
                 EventIfNew(EventIfNew(E, A[k].in_gate_area, "person_entered_gate_area",
                                       A[k].track_id, t),
                            A[k].in_guard_anchor, "guard_anchored", A[k].track_id, t),
                 C, k, k + 1, t),
             C, k + 1, t)

(* the track ids of the analysis that are in the anchor *)
GuardTracks(A) ==
    [k \in 1..Len(SelectSeq(A, LAMBDA a : a.in_guard_anchor)) |->
        SelectSeq(A, LAMBDA a : a.in_guard_anchor)[k].track_id]

(* the update_guard calls of _decision_layer *)
RECURSIVE UpdateGuardsOf(_, _, _, _)
UpdateGuardsOf(A, GS, k, dt) ==
    IF k > Len(A) THEN GS
    ELSE IF A[k].in_guard_anchor
         THEN UpdateGuardsOf(A, update_guard(GS, A[k].track_id, A[k].in_guard_anchor,
                                             A[k].in_gate_area, dt),
                             k + 1, dt)
         ELSE UpdateGuardsOf(A, GS, k + 1, dt)

(* the loop of _select_guard_for_person over guard_ids *)
RECURSIVE NearestGuard(_, _, _, _, _, _)
NearestGuard(A, GS, person_id, guard_ids, min_dist, best_guard) ==
    IF guard_ids = <<>> THEN best_guard
    ELSE IF /\ GuardQualified(GS, Head(guard_ids))
            /\ HasProximity(A, person_id, Head(guard_ids))
            /\ Proximity(A, person_id, Head(guard_ids)).center_distance < min_dist
         THEN NearestGuard(A, GS, person_id, Tail(guard_ids),
                           Proximity(A, person_id, Head(guard_ids)).center_distance,
                           Head(guard_ids))
         ELSE NearestGuard(A, GS, person_id, Tail(guard_ids), min_dist, best_guard)

(* GateChecker._select_guard_for_person *)
_select_guard_for_person(A, GS, person_id, guard_ids) ==
    IF Len(guard_ids) = 0 THEN None
    ELSE IF ~HasState(A, person_id) \/ ~StateOf(A, person_id).in_gate_area THEN None
    ELSE NearestGuard(A, GS, person_id, guard_ids, Infinity, None)

(* the update_person call of _decision_layer for a track and the guard
   selected for it *)
PersonDecision(A, PS, GS, a, selected_guard, dt, t) ==
    update_person(PS, GS, a.track_id, a.in_gate_area, selected_guard,
                  IF selected_guard # None /\ HasProximity(A, a.track_id, selected_guard)
                  THEN Proximity(A, a.track_id, selected_guard).in_contact
                  ELSE FALSE,
                  IF selected_guard # None /\ HasProximity(A, a.track_id, selected_guard)
                  THEN <<Proximity(A, a.track_id, selected_guard).center_distance,
                         Proximity(A, a.track_id, selected_guard).iou>>
                  ELSE <<>>,
                  FALSE, dt, t)

(* the person loop of _decision_layer from track k on, with
   _handle_completion: the person_states, the events and the last decision *)
RECURSIVE UpdatePersonsOf(_, _, _, _, _, _, _, _)
AfterPersonDecision(A, GS, E, k, a, selected_guard, r, dt, t) ==
    UpdatePersonsOf(A, r.person_states, GS,
                    IF r.decision.completed
                    THEN create_event(E, "check_completed", a.track_id, selected_guard, t)
                    ELSE E,
                    r.decision, k + 1, dt, t)

PersonStep(A, PS, GS, E, k, selected_guard, dt, t) ==
    AfterPersonDecision(A, GS, E, k, A[k], selected_guard,
                        PersonDecision(A, PS, GS, A[k], selected_guard, dt, t), dt, t)

UpdatePersonsOf(A, PS, GS, E, last, k, dt, t) ==
    IF k > Len(A) THEN [person_states |-> PS, events |-> E, decision |-> last]
    ELSE IF A[k].in_guard_anchor THEN UpdatePersonsOf(A, PS, GS, E, last, k + 1, dt, t)
    ELSE PersonStep(A, PS, GS, E, k,
                    _select_guard_for_person(A, GS, A[k].track_id, GuardTracks(A)), dt, t)

(* the check_session_timeout loop of _decision_layer *)
RECURSIVE CheckTimeouts(_, _, _)
CheckTimeouts(PS, k, t) ==
    IF k > Len(PS) THEN PS
    ELSE CheckTimeouts(check_session_timeout(PS, PS[k].track_id, t).person_states, k + 1, t)

(* GateChecker._decision_layer: the guard_states, person_states, events
   and last decision after it *)
DecisionResult(GS, r, t) ==
    [guard_states |-> GS,
     person_states |-> CheckTimeouts(r.person_states, 1, t),
     events |-> r.events,
     decision |-> r.decision]

PersonsAfterGuards(A, PS, GS, E, dt, t) ==
    DecisionResult(GS, UpdatePersonsOf(A, PS, GS, E, NoDecision, 1, dt, t), t)

_decision_layer(A, PS, GS, E, dt, t) ==
    PersonsAfterGuards(A, PS, UpdateGuardsOf(A, GS, 1, dt), E, dt, t)

TrackIds(R) == {R[k].track_id : k \in 1..Len(R)}

(* GateChecker.update after the decision layer, with _cleanup_old_states *)
AfterDecision(R, H, d) ==
    /\ person_states' = cleanup_old_states(d.person_states, TrackIds(R))
    /\ guard_states' = cleanup_old_states(d.guard_states, TrackIds(R))
    /\ history' = cleanup_old_states(H, TrackIds(R))
    /\ events' = d.events
    /\ decision' = d.decision

AfterAnalysis(R, H, A, dt, t) ==
    /\ active_contacts' = update_contact(A, active_contacts)
    /\ AfterDecision(R, H, _decision_layer(A, person_states, guard_states,
                                           _event_layer(A, events, active_contacts, 1, t), dt, t))

AfterPerception(R, H, dt, t) == AfterAnalysis(R, H, _analyze_tracks(R, H), dt, t)

(* GateChecker.update at time t, given the result r of tracker.update *)
GateUpdate(r, dt, t) ==
    /\ now' = t
    /\ tracks' = r.tracks
    /\ next_id' = r.next_id
    /\ returned' = r.returned
    /\ AfterPerception(r.returned, AddPositions(history, r.returned, 1), dt, t)

(* ---------------- the checker driven frame by frame ---------------- *)
GateMaxTime == 9

GuardBox == <<0, 0, 240, 480>>
VisitorBox == <<144, 0, 384, 480>>

(* the detections of a frame: nobody, the guard at the anchor, the
   visitor next to the anchor, or both in either order *)
GateDetections ==
    {<<>>, <<Det(GuardBox, 90)>>, <<Det(VisitorBox, 90)>>,
     <<Det(GuardBox, 90), Det(VisitorBox, 90)>>,
     <<Det(VisitorBox, 90), Det(GuardBox, 90)>>}

(* the frames come one second apart, or after three seconds *)
GateSteps == {1, 3}

(* one GateChecker.update call with dt = None: dt is the time since the
   last frame, clamped *)
GateFrameOf(lists, max_time) ==
    \E step \in GateSteps, detections \in lists :
        /\ now + step <= max_time
        /\ GateUpdate(SimpleTracker_update(tracks, next_id, _filter_detections(detections)),
                      ClampDt(1000 * step), now + step)
        /\ UNCHANGED <<manager_vars, recent_in_ga, max_age, min_hits, replica, dedup_vars>>

GateFrame == GateFrameOf(GateDetections, GateMaxTime)

NextGate == GateFrame

SpecGate == Init /\ [][NextGate]_vars



(* ======================= properties ======================= *)
TicketIds == 1..Len(tickets)
GuardIds == 1..Len(guards)

Precedes(q, a, b) == \E i, j \in 1..Len(q) : i < j /\ q[i] = a /\ q[j] = b

(* C1: every call of process_detections returns, with state_lock free
   again, so that a later frame or cancel_ticket can acquire it *)
C1_FrameReturnsLockFree == pc = "idle" /\ state_lock = "free"

(* C2: every non-terminal ticket either has no assigned guard or is its
   assigned guard's current ticket *)
C2_TicketGuardLinked ==
    \A i \in TicketIds :
        tickets[i].status \in NonTerminal =>
            \/ tickets[i].assigned_guard = None
            \/ /\ tickets[i].assigned_guard \in GuardIds
               /\ guards[tickets[i].assigned_guard].current_ticket = i

(* C3: a guard's current_ticket is None if and only if no non-terminal
   ticket names that guard as its assigned guard *)
C3_GuardFreeIffUnreferenced ==
    \A g \in GuardIds :
        (guards[g].current_ticket = None) <=>
            ~\E i \in TicketIds : tickets[i].status \in NonTerminal
                                  /\ tickets[i].assigned_guard = g

(* C4: every person id is a member of at most one non-terminal ticket *)
C4_OneOpenTicketPerPerson ==
    \A pid \in 1..NumTracks :
        Cardinality({i \in TicketIds : tickets[i].status \in NonTerminal
                                       /\ Contains(tickets[i].members, pid)}) <= 1

(* C5: the queue holds exactly the ids of the non-terminal tickets, each
   once, in non-decreasing created_at order *)
C5_QueueIsOpenTickets ==
    /\ SeqToSet(queue) = {i \in TicketIds : tickets[i].status \in NonTerminal}
    /\ \A a, b \in 1..Len(queue) : a < b => queue[a] # queue[b]
    /\ \A a, b \in 1..Len(queue) :
          (a < b /\ queue[a] \in TicketIds /\ queue[b] \in TicketIds)
              => tickets[queue[a]].created_at <= tickets[queue[b]].created_at

(* C6: when the guard of a ticket in ASSIGNING, IN_CHECK or IN_BATCH stops
   being active, the ticket becomes ESCALATED with reason 'Guard left
   during examination' and the guard's current_ticket becomes None *)
C6_GuardVacationReleases ==
    [][\A i \in TicketIds :
          (/\ tickets[i].status \in {"ASSIGNING", "IN_CHECK", "IN_BATCH"}
           /\ tickets[i].assigned_guard \in GuardIds
           /\ guards[tickets[i].assigned_guard].is_active
           /\ ~guards'[tickets[i].assigned_guard].is_active)
          => /\ tickets'[i].status = "ESCALATED"
             /\ tickets'[i].escalated_reason = "Guard left during examination"
             /\ guards'[tickets[i].assigned_guard].current_ticket = None]_vars

AllowedTransitions ==
    {<<"WAITING", "ASSIGNING">>, <<"ASSIGNING", "IN_CHECK">>, <<"ASSIGNING", "IN_BATCH">>,
     <<"IN_CHECK", "CHECKED">>, <<"IN_BATCH", "CHECKED">>}
    \cup (NonTerminal \X {"ESCALATED", "CANCELLED"})

(* C7: a ticket's status changes only along the status graph, and never
   again once it is CHECKED, ESCALATED or CANCELLED *)
C7_StatusGraph ==
    [][\A i \in TicketIds :
          \/ tickets'[i].status = tickets[i].status
          \/ <<tickets[i].status, tickets'[i].status>> \in AllowedTransitions]_vars

(* what C8 compares: status, reason and completed_at of every ticket, the
   current_ticket of every guard, and the queue *)
CancelView(M) ==
    <<[i \in 1..Len(M.tickets) |->
          <<M.tickets[i].status, M.tickets[i].escalated_reason, M.tickets[i].completed_at>>],
      [g \in 1..Len(M.guards) |-> M.guards[g].current_ticket],
      M.queue>>

(* C8: in every state and for every ticket id, cancel_ticket(id) applied
   twice leaves tickets, guards and queue as applying it once does *)
C8_CancelIdempotent ==
    \A ticket_id \in 1..MaxTickets, d1 \in CancelDts, d2 \in CancelDts :
        LET once == cancel_ticket(ticket_id, "Manual cancellation", Manager, now + d1)
            twice == cancel_ticket(ticket_id, "Manual cancellation", once, now + d1 + d2)
        IN  CancelView(twice) = CancelView(once)

(* ticket i gets its guard in this step *)
AssignedInStep(i) ==
    /\ tickets'[i].assigned_guard # None
    /\ (i \in TicketIds => tickets[i].assigned_guard = None)

(* C9: a ticket that is assigned a guard in a frame gets a guard that was
   free before and is active, and no ticket ahead of it in the queue is
   left WAITING *)
C9_AssignmentIsFifo ==
    [][\A i \in 1..Len(tickets') :
          AssignedInStep(i) =>
              /\ tickets'[i].assigned_guard \in GuardIds
              /\ guards[tickets'[i].assigned_guard].current_ticket = None
              /\ guards'[tickets'[i].assigned_guard].is_active
              /\ \A j \in 1..Len(tickets') :
                    Precedes(queue', j, i) => tickets'[j].status # "WAITING"]_vars

(* a frame has assigned a ticket while a ticket behind it in the queue
   still waits for a guard *)
C9_Witness ==
    \E i, j \in TicketIds :
        /\ tickets[i].status = "ASSIGNING"
        /\ tickets[i].proximity_duration = 0
        /\ tickets[j].status = "WAITING"
        /\ Precedes(queue, i, j)

(* the time the person has spent in the gate area without a break, read
   off the frames recorded in its location history *)
DwellInGate(p) ==
    LET h == p.location_history
        run == {i \in 1..Len(h) : \A j \in i..Len(h) : h[j].in_gate}
    IN  IF run = {} THEN 0 ELSE now - h[CHOOSE i \in run : \A j \in run : i <= j].time

HasOpenTicket(pid) ==
    \E i \in TicketIds : tickets[i].status \in NonTerminal /\ Contains(tickets[i].members, pid)

(* C10: after a frame, an ungrouped person in the gate area holds a ticket
   once its dwell in the gate area has reached PRESENCE_TO_CHECK, and a
   ticket made by create_tickets_for_individuals in this frame belongs to
   a person whose dwell has reached it *)
C10_TicketAtPresence ==
    /\ \A k \in 1..Len(persons) :
          (/\ persons[k].in_gate_area
           /\ persons[k].type = "person"
           /\ persons[k].id \notin GroupedPersonIds(groups)
           /\ DwellInGate(persons[k]) >= PRESENCE_TO_CHECK)
          => HasOpenTicket(persons[k].id)
    /\ \A i \in TicketIds :
          (/\ tickets[i].type = "individual"
           /\ tickets[i].metadata = "none"
           /\ tickets[i].created_at = now
           /\ HasPerson(persons, tickets[i].members[1]))
          => DwellInGate(GetPerson(persons, tickets[i].members[1])) >= PRESENCE_TO_CHECK

(* C11 as stated: in a frame's escalation sweep a WAITING ticket whose
   wait (now - ready_at) is below T_MAX_WAIT stays WAITING, and one whose
   wait equals T_MAX_WAIT becomes ESCALATED with reason 'Maximum wait time
   exceeded' and leaves the queue *)
C11_EscalatedAtMaxWait ==
    [][\A i \in TicketIds :
          tickets[i].status = "WAITING" =>
              /\ (now' - tickets[i].ready_at < T_MAX_WAIT => tickets'[i].status = "WAITING")
              /\ (now' - tickets[i].ready_at = T_MAX_WAIT =>
                     /\ tickets'[i].status = "ESCALATED"
                     /\ tickets'[i].escalated_reason = "Maximum wait time exceeded"
                     /\ ~Contains(queue', i))]_vars

(* C11 amended: a WAITING ticket whose wait is at most T_MAX_WAIT, the
   boundary included, stays WAITING and in the queue; one whose wait
   exceeds T_MAX_WAIT becomes ESCALATED with reason 'Maximum wait time
   exceeded', completed at the time of the frame, and leaves the queue *)
C11_EscalatedAfterMaxWait ==
    [][\A i \in TicketIds :
          tickets[i].status = "WAITING" =>
              IF now' - tickets[i].ready_at > T_MAX_WAIT
              THEN /\ tickets'[i].status = "ESCALATED"
                   /\ tickets'[i].escalated_reason = "Maximum wait time exceeded"
                   /\ tickets'[i].completed_at = now'
                   /\ ~Contains(queue', i)
              ELSE /\ tickets'[i] = tickets[i]
                   /\ Contains(queue', i)]_vars

(* a ticket has been swept at a wait of exactly T_MAX_WAIT and is still
   WAITING, while another has been escalated by the sweep *)
C11_Witness ==
    /\ \E i \in TicketIds : /\ tickets[i].status = "WAITING"
                            /\ now - tickets[i].ready_at = T_MAX_WAIT
                            /\ Contains(queue, i)
    /\ \E j \in TicketIds : /\ tickets[j].status = "ESCALATED"
                            /\ tickets[j].escalated_reason = "Maximum wait time exceeded"
                            /\ tickets[j].completed_at - tickets[j].ready_at > T_MAX_WAIT

(* ---------------- the person FSM ---------------- *)
(* the CheckState of a track before and after a step; a track the engine
   has no PersonState for is created IDLE by get_person_state *)
CheckStateBefore(p) ==
    IF HasState(person_states, p) THEN StateOf(person_states, p).current_state ELSE "IDLE"

CheckStateAfter(p) == StateOf(person_states', p).current_state

FsmTable ==
    {<<"IDLE", "PRESENT_IN_GA">>,
     <<"PRESENT_IN_GA", "IDLE">>, <<"PRESENT_IN_GA", "GUARD_PRESENT">>,
     <<"GUARD_PRESENT", "PRESENT_IN_GA">>, <<"GUARD_PRESENT", "IDLE">>,
     <<"GUARD_PRESENT", "INTERACTION_WINDOW">>,
     <<"INTERACTION_WINDOW", "GUARD_PRESENT">>, <<"INTERACTION_WINDOW", "IDLE">>,
     <<"PRESENT_IN_GA", "CHECK_COMPLETED">>, <<"GUARD_PRESENT", "CHECK_COMPLETED">>,
     <<"INTERACTION_WINDOW", "CHECK_COMPLETED">>}

(* C12: over one update_person call the CheckState of the updated person
   either stays what it was or moves along one edge of the table:
   IDLE -> PRESENT_IN_GA; PRESENT_IN_GA -> IDLE | GUARD_PRESENT;
   GUARD_PRESENT -> PRESENT_IN_GA | IDLE | INTERACTION_WINDOW;
   INTERACTION_WINDOW -> GUARD_PRESENT | IDLE; and PRESENT_IN_GA,
   GUARD_PRESENT or INTERACTION_WINDOW -> CHECK_COMPLETED. *)
C12_TableEdgesOnly ==
    [][UpdatePerson =>
         \A p \in FsmPersons :
             HasState(person_states', p) =>
                 \/ CheckStateAfter(p) = CheckStateBefore(p)
                 \/ <<CheckStateBefore(p), CheckStateAfter(p)>> \in FsmTable]_vars

(* a call that found the person PRESENT_IN_GA and left it CHECK_COMPLETED *)
C12_Witness ==
    /\ decision.prev_state = "PRESENT_IN_GA"
    /\ decision.state = "CHECK_COMPLETED"

(* C13: a person leaves IDLE only in an update_person call that is at least
   the multi_frame_consensus-th (3rd) consecutive call with in_gate_area
   true: the call's own argument and those of the two calls before it are
   all true, so one in-gate call followed by out-of-gate calls stays IDLE. *)
C13_LeavesIdleOnConsensus ==
    [][UpdatePerson =>
         \A p \in FsmPersons :
             (HasState(person_states', p)
              /\ CheckStateBefore(p) = "IDLE" /\ CheckStateAfter(p) # "IDLE")
             => /\ Len(StateOf(recent_in_ga', p).calls) = multi_frame_consensus
                /\ \A i \in 1..multi_frame_consensus : StateOf(recent_in_ga', p).calls[i]]_vars

(* a person that left IDLE after an earlier in-gate call was followed by an
   out-of-gate call: the last three calls were in-gate, the state kept
   before them shows the interrupted run in its dwell time *)
C13_Witness ==
    /\ decision.prev_state = "IDLE"
    /\ decision.state = "PRESENT_IN_GA"
    /\ \E i \in 1..Len(person_states) :
           /\ person_states[i].consecutive_in_ga = multi_frame_consensus
           /\ person_states[i].dwell_in_ga > multi_frame_consensus * 1000

(* the conditions of a completion, on the PersonState as the FSM transition
   step of a call at time t left it *)
CompletionConditions(mid, t) ==
    /\ mid.current_state \in {"GUARD_PRESENT", "INTERACTION_WINDOW"}
    /\ ~(mid.cooldown_until # None /\ t < mid.cooldown_until)
    /\ mid.dwell_in_ga >= 6000
    /\ mid.guard_overlap_time >= 3000
    /\ mid.interaction_time >= 1200
    /\ 10 * _calculate_score(mid, t) >= 9 * ScoreOne

(* C14: an update_person call reports completed = true exactly when, after
   its FSM transition step, the state is GUARD_PRESENT or INTERACTION_WINDOW,
   the cooldown is not active, dwell_in_ga >= 6 s, guard_overlap_time >= 3 s,
   interaction_time >= 1.2 s and score >= 0.9; in that call the person
   becomes CHECK_COMPLETED and cooldown_until is set 10 s ahead, and in
   every other call neither the state the transition step left nor
   cooldown_until is changed. *)
C14_CompletesExactlyOnCriteria ==
    [][\A step \in LongSteps, p \in FsmPersons, obs \in LongObservations :
           UpdatePersonCall(step, p, obs, 1000, LongMaxTime) =>
               LET mid == BeforeCompletionCheck(
                              person_states, guard_states, p, obs.in_gate_area,
                              obs.guard_track_id, obs.is_in_contact, obs.contact_metrics,
                              obs.pose_detected, ClampDt(1000), now')
                   after == StateOf(person_states', p)
               IN  /\ decision'.completed = CompletionConditions(mid, now')
                   /\ decision'.completed =>
                          /\ after.current_state = "CHECK_COMPLETED"
                          /\ after.cooldown_until = now' + 10
                   /\ ~decision'.completed =>
                          /\ after.current_state = mid.current_state
                          /\ after.cooldown_until = mid.cooldown_until]_vars

(* a completion at a score of exactly 0.9 *)
C14_Witness ==
    /\ decision.completed
    /\ \E i \in 1..Len(person_states) :
           /\ person_states[i].current_state = "CHECK_COMPLETED"
           /\ 10 * person_states[i].completion_score = 9 * ScoreOne

(* every condition but the cooldown holds and nothing is completed *)
CooldownBlocksCompletion ==
    /\ ~decision.completed
    /\ \E i \in 1..Len(person_states) :
           LET st == person_states[i]
           IN  /\ st.current_state \in {"GUARD_PRESENT", "INTERACTION_WINDOW"}
               /\ st.last_update_at = now
               /\ is_in_cooldown(st, now)
               /\ st.dwell_in_ga >= 6000 /\ st.guard_overlap_time >= 3000
               /\ st.interaction_time >= 1200
               /\ 10 * _calculate_score(st, now) >= 9 * ScoreOne

(* C15: every PersonState in CHECK_COMPLETED has cooldown_until strictly
   greater than last_update_at, also when the person keeps being updated
   for longer than the 10-second cooldown after its completion. *)
C15_CooldownAfterLastUpdate ==
    \A i \in 1..Len(person_states) :
        person_states[i].current_state = "CHECK_COMPLETED"
        => person_states[i].cooldown_until > person_states[i].last_update_at

(* a step in which check_session_timeout resets the PersonState of p *)
ResetStep(p) ==
    /\ check_session_timeout(person_states, p, now').timed_out
    /\ person_states' = check_session_timeout(person_states, p, now').person_states

(* C16: within one session of a person, that is over every step that
   neither resets nor removes its PersonState, dwell_in_ga,
   guard_overlap_time and interaction_time do not decrease, whatever dt
   GateChecker.update is given (negative, zero, or above one second). *)
C16_TimersMonotonic ==
    [][\A p \in FsmPersons :
           (HasState(person_states, p) /\ HasState(person_states', p) /\ ~ResetStep(p))
           => /\ StateOf(person_states', p).dwell_in_ga >= StateOf(person_states, p).dwell_in_ga
              /\ StateOf(person_states', p).guard_overlap_time
                     >= StateOf(person_states, p).guard_overlap_time
              /\ StateOf(person_states', p).interaction_time
                     >= StateOf(person_states, p).interaction_time]_vars

(* timers that grew by updates with dt below the range, inside it and
   above it: 0.001 + 0.4 + 1.0 seconds *)
C16_Witness ==
    \E i \in 1..Len(person_states) :
        /\ person_states[i].dwell_in_ga = 1401
        /\ person_states[i].interaction_time = 1401
        /\ person_states[i].guard_overlap_time > 0

(* ---------------- ticket durations ---------------- *)
StaysOpen(i) ==
    /\ i \in 1..Len(tickets')
    /\ tickets[i].status \notin {"CHECKED", "ESCALATED", "CANCELLED"}
    /\ tickets'[i].status \notin {"CHECKED", "ESCALATED", "CANCELLED"}

(* C17: for every ticket that is non-terminal before and after a frame,
   proximity_duration and examination_duration are not lower after the
   frame than before it. *)
C17_DurationsMonotonic ==
    [][\A i \in TicketIds :
           StaysOpen(i) =>
               /\ tickets'[i].proximity_duration >= tickets[i].proximity_duration
               /\ tickets'[i].examination_duration >= tickets[i].examination_duration]_vars

(* C17, amended: examination_duration is not lowered, and
   proximity_duration is either not lowered or set back to 0 together with
   proximity_start = None (the frame found no member within D_MAX of the
   guard). *)
C17_DurationsMonotonicOrReset ==
    [][\A i \in TicketIds :
           StaysOpen(i) =>
               /\ tickets'[i].examination_duration >= tickets[i].examination_duration
               /\ \/ tickets'[i].proximity_duration >= tickets[i].proximity_duration
                  \/ /\ tickets'[i].proximity_duration = 0
                     /\ tickets'[i].proximity_start = None]_vars

(* a ticket under examination whose proximity was lost: it keeps its
   examination time and its proximity time is back at 0 *)
C17_Witness ==
    \E i \in TicketIds :
        /\ tickets[i].status \in {"IN_CHECK", "IN_BATCH"}
        /\ tickets[i].proximity_start = None
        /\ tickets[i].proximity_duration = 0
        /\ tickets[i].examination_start # None

(* C18: for every PersonState, whatever its min_center_distance, max_iou,
   pose_reach_count, interaction_time and session duration, the score
   _calculate_score returns, and the one stored in completion_score, lies
   in [0, 1]. *)
C18_ScoreInUnitInterval ==
    \A i \in 1..Len(person_states) :
        /\ 0 <= _calculate_score(person_states[i], now)
        /\ _calculate_score(person_states[i], now) <= ScoreOne
        /\ 0 <= person_states[i].completion_score
        /\ person_states[i].completion_score <= ScoreOne

(* a score of exactly 1 computed from an IoU above 3 * iou_min, more than
   ten pose detections and a session of more than ten seconds *)
C18_Witness ==
    \E i \in 1..Len(person_states) :
        /\ person_states[i].completion_score = ScoreOne
        /\ person_states[i].max_iou > 3 * iou_min
        /\ person_states[i].pose_reach_count > 10
        /\ session_duration(person_states[i], now) > 10

(* ---------------- the tracker ---------------- *)
(* C19: every track with is_confirmed = true has hits >= min_hits, the
   value the tracker was constructed with. *)
C19_ConfirmedHasMinHits ==
    \A i \in 1..Len(tracks) : tracks[i].is_confirmed => tracks[i].hits >= min_hits

(* C20: no track whose time_since_update exceeds the max_age the tracker was
   constructed with is in tracker.tracks or in the list update returned. *)
C20_NoTrackOlderThanMaxAge ==
    /\ \A i \in 1..Len(tracks) : tracks[i].time_since_update <= max_age
    /\ \A i \in 1..Len(returned) : returned[i].time_since_update <= max_age

(* the update r left the one track id, matched in that frame, and created
   no track *)
SameTrackMatched(r, nid, id) ==
    /\ Len(r.tracks) = 1
    /\ r.tracks[1].track_id = id
    /\ r.tracks[1].time_since_update = 0
    /\ r.next_id = nid

(* the only track of T is given one high-confidence detection at the
   position it was last seen at *)
RedetectedAtLastPosition(T, nid, id) ==
    /\ Len(T) = 1
    /\ SameTrackMatched(SimpleTracker_update(T, nid, <<Det(T[1].bbox, 90)>>), nid, id)

(* after each of the next k frames without detections the track would be
   matched again at its last position *)
RECURSIVE SurvivesOcclusion(_, _, _, _)
RECURSIVE AfterMissedFrame(_, _, _)
SurvivesOcclusion(T, nid, id, k) ==
    k = 0 \/ AfterMissedFrame(SimpleTracker_update(T, nid, <<>>), id, k)

AfterMissedFrame(r, id, k) ==
    /\ RedetectedAtLastPosition(r.tracks, r.next_id, id)
    /\ SurvivesOcclusion(r.tracks, r.next_id, id, k - 1)

(* C21: the only track, unmatched for k <= max_age consecutive frames and
   then given a single high-confidence detection at its last position, keeps
   its track_id: the detection is matched to it, time_since_update is 0
   again and no track is created. *)
C21_KeepsIdAfterOcclusion ==
    (Len(tracks) = 1 /\ tracks[1].time_since_update = 0)
        => SurvivesOcclusion(tracks, next_id, tracks[1].track_id, max_age)

(* ---------------- the session timeout ---------------- *)
(* the PersonState is IDLE with its timers and hysteresis counters at zero *)
TimersCleared(st) ==
    /\ st.current_state = "IDLE"
    /\ st.dwell_in_ga = 0
    /\ st.guard_overlap_time = 0
    /\ st.interaction_time = 0
    /\ st.consecutive_in_ga = 0
    /\ st.consecutive_out_ga = 0
    /\ st.consecutive_contact = 0
    /\ st.consecutive_no_contact = 0

(* what a check_session_timeout call with result r owes, at time t *)
TimeoutContract(r, track_id, t) ==
    /\ r.timed_out <=> /\ HasState(person_states, track_id)
                       /\ t - StateOf(person_states, track_id).last_update_at
                              >= session_timeout_s
    /\ r.timed_out => TimersCleared(StateOf(r.person_states, track_id))
    /\ ~r.timed_out => r.person_states = person_states

(* C22: check_session_timeout(track_id) returns true exactly when the
   PersonState exists and was last updated at least SESSION_TIMEOUT (8 s)
   ago; then the state is IDLE with dwell_in_ga, guard_overlap_time,
   interaction_time and the four hysteresis counters at zero; when it
   returns false the PersonState is unchanged. *)
C22_SessionTimeoutContract ==
    \A track_id \in FsmPersons \cup FsmGuards, t \in now..(now + session_timeout_s + 1) :
        TimeoutContract(check_session_timeout(person_states, track_id, t), track_id, t)

(* a completed check was reset by the timeout: only reset leaves
   CHECK_COMPLETED, and it keeps cooldown_until *)
C22_Witness ==
    \E track_id \in FsmPersons :
        /\ HasState(person_states, track_id)
        /\ now - StateOf(person_states, track_id).last_update_at >= session_timeout_s
        /\ StateOf(person_states, track_id).cooldown_until # None
        /\ TimersCleared(StateOf(person_states, track_id))

(* ---------------- the gate checker ---------------- *)
(* a frame whose detection list is empty: every track is marked missed
   and none is matched or created *)
EmptyFrameStep ==
    /\ now' > now
    /\ tracks' = SimpleTracker_update(tracks, next_id, <<>>).tracks
    /\ next_id' = SimpleTracker_update(tracks, next_id, <<>>).next_id

(* the track ids whose check is completed *)
Completed(PS) ==
    {PS[i].track_id : i \in {j \in 1..Len(PS) : PS[j].current_state = "CHECK_COMPLETED"}}

(* C23: a frame with an empty detection list creates no track, completes
   no check and logs no event (no person_entered_gate_area, guard_anchored
   or check_completed event in particular). *)
C23_EmptyFramesCreateNothing ==
    [][EmptyFrameStep =>
           /\ next_id' = next_id
           /\ Len(tracks') <= Len(tracks)
           /\ Completed(person_states') \subseteq Completed(person_states)
           /\ events' = events]_vars

(* the qualified guards of the analysis that are in the anchor *)
QualifiedGuards(A, GS) ==
    {A[k].track_id : k \in {j \in 1..Len(A) : /\ A[j].in_guard_anchor
                                              /\ GuardQualified(GS, A[j].track_id)}}

CenterDistance(A, track_id, other_id) ==
    are_in_contact(StateOf(A, track_id).bbox, StateOf(A, other_id).bbox).center_distance

(* selected is the nearest of the guards Q to the person, the lowest id
   among the nearest; None if there is no guard *)
IsNearestGuard(A, Q, person_id, selected) ==
    IF Q = {} THEN selected = None
    ELSE /\ selected \in Q
         /\ \A g \in Q :
                \/ CenterDistance(A, person_id, selected) < CenterDistance(A, person_id, g)
                \/ /\ CenterDistance(A, person_id, selected) = CenterDistance(A, person_id, g)
                   /\ selected <= g

SelectsNearestGuard(A, GS) ==
    \A k \in 1..Len(A) :
        (A[k].in_gate_area /\ ~A[k].in_guard_anchor)
            => IsNearestGuard(A, QualifiedGuards(A, GS), A[k].track_id,
                              _select_guard_for_person(A, GS, A[k].track_id, GuardTracks(A)))

(* C24: for every person in the gate area, _select_guard_for_person
   returns the qualified guard in the anchor nearest to the person (the
   lowest id on ties) and None only if no qualified guard is in the
   anchor, whether the guard's track id is below or above the person's. *)
C24_SelectsNearestQualifiedGuard ==
    SelectsNearestGuard(_analyze_tracks(returned, history), guard_states)

(* ---------------- guard qualification ---------------- *)
(* C25: in strict_anchor mode, after update_guard the guard is qualified
   if and only if its anchor time is at least GUARD_READY and in_anchor was
   true in that call. *)
C25_StrictAnchorQualified ==
    \A i \in 1..Len(guard_states) :
        guard_states[i].is_qualified
            <=> /\ guard_states[i].dwell_in_anchor >= guard_min_dwell_s
                /\ guard_states[i].in_anchor

(* ---------------- the cooldown ---------------- *)
(* C26: while the cooldown of a completed check is active the person is
   not back in the examination FSM: its state is not PRESENT_IN_GA,
   GUARD_PRESENT or INTERACTION_WINDOW. *)
C26_NoReentryDuringCooldown ==
    \A i \in 1..Len(person_states) :
        is_in_cooldown(person_states[i], now)
            => person_states[i].current_state
                   \notin {"PRESENT_IN_GA", "GUARD_PRESENT", "INTERACTION_WINDOW"}

(* ---------------- the pose source absent ---------------- *)
(* dwell, guard overlap and contact are satisfied for a person the pose
   predicate was never true for *)
CriteriaMetWithoutPose(st) ==
    /\ st.pose_reach_count = 0
    /\ st.dwell_in_ga >= person_min_dwell_s
    /\ st.guard_overlap_time >= guard_min_dwell_s
    /\ st.interaction_time >= interaction_min_overlap_s

(* the score of the person is the highest a score without pose can be: the
   contact confidence and the persistence confidence are both 1 *)
BestContactScore(st, t) ==
    /\ st.max_iou >= 3 * iou_min
    /\ session_duration(st, t) >= 10

(* C27: with the pose source absent a check can still be completed on
   contact only: a person just updated whose dwell, guard overlap and
   contact are satisfied, at the highest score contact can give, is in
   CHECK_COMPLETED. *)
C27_CompletesWithoutPose ==
    \A i \in 1..Len(person_states) :
        (/\ person_states[i].last_update_at = now
         /\ CriteriaMetWithoutPose(person_states[i])
         /\ BestContactScore(person_states[i], now))
            => person_states[i].current_state = "CHECK_COMPLETED"

(* without a pose detection the score stays below the threshold and no
   check is completed *)
NoPoseNeverCompletes ==
    \A i \in 1..Len(person_states) :
        person_states[i].pose_reach_count = 0
            => /\ person_states[i].current_state # "CHECK_COMPLETED"
               /\ _calculate_score(person_states[i], now) < scoring_threshold * ConfOne

(* ---------------- two ticket managers fed the same frames ---------------- *)
(* the values uuid4 can return are 122 random bits; a pool of MaxUuid values
   stands for them *)
MaxUuid == 4
ReplayMaxDetections == 2

(* the person ids a manager holds *)
IdsInUse(P, M) ==
    {P[i].id : i \in 1..Len(P)}
      \cup UNION {SeqToSet(M.tickets[i].members) : i \in 1..Len(M.tickets)}
      \cup UNION {SeqToSet(M.groups[i].members) : i \in 1..Len(M.groups)}

(* n calls of uuid.uuid4(): any n values, which with 122 random bits neither
   repeat nor meet a value in use *)
Uuid4Draws(n, used) ==
    {u \in [1..n -> (1..MaxUuid) \ used] : \A i \in 1..n, j \in 1..n : i # j => u[i] # u[j]}

(* process_detections line 902: person_id = str(uuid.uuid4()) for every
   detection of the frame *)
WithDraws(raw, u) ==
    [i \in 1..Len(raw) |->
        [uid |-> u[i], cls_id |-> raw[i].cls_id, conf |-> raw[i].conf, bbox |-> raw[i].bbox]]

ReplicaManager == [groups |-> replica.groups, tickets |-> replica.tickets, guards |-> replica.guards, queue |-> replica.queue]

ManagerOf(R) == [groups |-> R.groups, tickets |-> R.tickets, guards |-> R.guards, queue |-> R.queue]

(* the manager with persons P and the groups, tickets, guards and queue of
   M, and the lock as the call of update_statistics leaves it *)
ManagerAfter(P, M, stats) ==
    [persons |-> P, groups |-> M.groups, tickets |-> M.tickets, guards |-> M.guards,
     queue |-> M.queue,
     state_lock |-> IF stats.returned THEN "free" ELSE stats.lock,
     pc |-> IF stats.returned THEN "idle" ELSE "update_statistics"]

PipelineOn(P, R, t) ==
    ManagerAfter(P, TicketPipeline(P, ManagerOf(R), t), update_statistics(Acquire(R.state_lock).lock))

(* the state a manager is left in by process_detections(raw) at time t when
   uuid4 returns u: the call of ProcessDetections, on a manager given as a
   record *)
process_detections(R, raw, u, t) ==
    PipelineOn(PersonsAfter(R.persons, WithDraws(raw, u), t), R, t)

ThisManager ==
    [persons |-> persons, groups |-> groups, tickets |-> tickets, guards |-> guards,
     queue |-> queue, state_lock |-> state_lock, pc |-> pc]

(* both managers have handled the frame *)
ReplayStep(R1, R2, t) ==
    /\ t <= MaxTime
    /\ Len(R1.tickets) <= MaxTickets
    /\ now' = t
    /\ persons' = R1.persons
    /\ groups' = R1.groups
    /\ tickets' = R1.tickets
    /\ guards' = R1.guards
    /\ queue' = R1.queue
    /\ state_lock' = R1.state_lock
    /\ pc' = R1.pc
    /\ replica' = R2
    /\ UNCHANGED <<uuid_counter, visits, fsm_vars, tracker_vars, gate_vars, dedup_vars>>

(* the same frame, read at the same clock time, is handed to both managers;
   each draws its own uuid4 values *)
ReplayFrame ==
    \E dt \in FrameDts, n \in 0..ReplayMaxDetections :
      \E raw \in [1..n -> RawDetections] :
        \E u1 \in Uuid4Draws(n, IdsInUse(persons, Manager)), u2 \in Uuid4Draws(n, IdsInUse(replica.persons, ReplicaManager)) :
            /\ pc = "idle" /\ replica.pc = "idle"
            /\ Acquire(state_lock).acquired /\ Acquire(replica.state_lock).acquired
            /\ ReplayStep(process_detections(ThisManager, raw, u1, now + dt),
                          process_detections(replica, raw, u2, now + dt), now + dt)

NextReplay == ReplayFrame

SpecReplay == Init /\ [][NextReplay]_vars

(* C28: two freshly loaded ticket managers that were handed the same frames
   at the same clock times hold the same persons, groups, tickets (members,
   statuses, guards), guards and queue *)
C28_ReplayIdentical ==
    /\ persons = replica.persons
    /\ groups = replica.groups
    /\ tickets = replica.tickets
    /\ guards = replica.guards
    /\ queue = replica.queue

(* ---------------- EventDeduplicator (event_deduplication.py) ---------------- *)
(* the constructor's defaults, seconds *)
cooldown_seconds == 60
time_bucket_seconds == 60

DedupMaxTime == 150
DedupMaxCalls == 4
DedupDts == {1, 29, 30}
DedupTracks == {123, 124}

(* generate_idempotency_key at clock time t: the md5 of the joined parts
   stands for the parts themselves, the bucket among them; custom_data is
   None in every call made here and adds no part *)
generate_idempotency_key(camera_id, event_type, track_id, t) ==
    <<camera_id, event_type, track_id, t - (t % time_bucket_seconds)>>

(* _clean_expired_keys *)
_clean_expired_keys(cache, t) == {e \in cache : ~(e.expiry < t)}

(* should_emit_event, in-memory branch, from the cache already cleaned *)
ShouldEmitFrom(cleaned, key, t) ==
    IF \E e \in cleaned : e.key = key
    THEN [should_emit |-> FALSE, cache |-> cleaned]
    ELSE [should_emit |-> TRUE,
          cache |-> cleaned \cup {[key |-> key, expiry |-> t + cooldown_seconds]}]

should_emit_event(cache, camera_id, event_type, track_id, t) ==
    ShouldEmitFrom(_clean_expired_keys(cache, t),
                   generate_idempotency_key(camera_id, event_type, track_id, t), t)

(* emit_event("cam1", "test_event", {...}, track_id): EventMetadata or None *)
EmitEvent ==
    \E dt \in DedupDts, track_id \in DedupTracks :
        LET t == now + dt
            r == should_emit_event(_in_memory_cache, "cam1", "test_event", track_id, t)
        IN  /\ t <= DedupMaxTime
            /\ Len(emit_calls) < DedupMaxCalls
            /\ now' = t
            /\ _in_memory_cache' = r.cache
            /\ emit_calls' = Append(emit_calls, [track_id |-> track_id, time |-> t, emitted |-> r.should_emit])
            /\ UNCHANGED <<manager_vars, fsm_vars, tracker_vars, gate_vars, replica>>

NextDedup == EmitEvent

SpecDedup == Init /\ [][NextDedup]_vars

(* C29: of two emit_event calls for the same camera, event type and track
   made less than cooldown_seconds apart, if the first was emitted the
   second is suppressed, at whatever clock times the two were made *)
C29_SecondSuppressedInCooldown ==
    \A i \in 1..Len(emit_calls), j \in 1..Len(emit_calls) :
        /\ i < j
        /\ emit_calls[i].track_id = emit_calls[j].track_id
        /\ emit_calls[j].time - emit_calls[i].time < cooldown_seconds
        /\ emit_calls[i].emitted
        => ~emit_calls[j].emitted

(* ---------------- groups that split ---------------- *)
MaxSplitTickets == 4

(* frames of visitors only: nobody stands in the guard anchor *)
SplitWheres == {w \in Wheres : w[NumTracks] = Absent}

SplitFrame == FrameOf(FrameDts, SplitWheres, MaxSplitTickets, MaxVisits)

NextSplit == SplitFrame \/ CancelTicket

SpecSplit == Init /\ [][NextSplit]_vars

(* the frames SplitFrame can take next *)
SplitFrameInput(dt, where) ==
    /\ pc = "idle"
    /\ now + dt <= MaxTime
    /\ \A k \in 1..NumTracks : Enters(where, k) => visits[k] < MaxVisits
    /\ Len(TicketPipeline(PersonsAfter(persons, TrackedDetections(where, 1), now + dt), Manager, now + dt).tickets) <= MaxSplitTickets

(* the group tickets of a group: those of its member set *)
GroupTickets(T, group) ==
    {i \in 1..Len(T) : T[i].type = "group" /\ SeqToSet(T[i].members) = SeqToSet(group.members)}

(* the individual tickets that M1 has and M0 had not, made for member pid
   with the given ready_at *)
SplitTicketsOf(M0, M1, pid, ready_at) ==
    {i \in (Len(M0.tickets) + 1)..Len(M1.tickets) :
        /\ M1.tickets[i].type = "individual"
        /\ M1.tickets[i].members = <<pid>>
        /\ M1.tickets[i].status = "WAITING"
        /\ M1.tickets[i].ready_at = ready_at
        /\ M1.tickets[i].metadata = "split_from_group"}

(* what the split of group g, taking the manager from M0 to M1, owes to
   group ticket gt *)
SplitSideEffects(g, gt, M0, M1) ==
    /\ M1.tickets[gt].status = "CANCELLED"
    /\ M1.tickets[gt].escalated_reason = "Group split due to separation"
    /\ \A i \in 1..Len(M1.groups) : M1.groups[i].members # g.members
    /\ \A pid \in SeqToSet(g.members) :
           Cardinality(SplitTicketsOf(M0, M1, pid, M0.tickets[gt].ready_at)) = 1

(* the groups of M0 that update_existing_groups(P, M0, t) splits *)
GroupsSplit(P, M0, t) ==
    {i \in 1..Len(M0.groups) :
        /\ GroupToSplit(M0.groups[i], P, t)
        /\ Len(UpdatedGroup(M0.groups[i], P, t).members) > 1}

SplitContract(P, M0, M1, t) ==
    \A i \in GroupsSplit(P, M0, t) :
        \A gt \in GroupTickets(M0.tickets, M0.groups[i]) :
            M0.tickets[gt].status \in NonTerminal
                => SplitSideEffects(M0.groups[i], gt, M0, M1)

BeforeUpdateGroups(P, t) == [Manager EXCEPT !.groups = @ \o detect_groups(P, groups, t)]

SplitContractAt(P, t) ==
    SplitContract(P, BeforeUpdateGroups(P, t), update_existing_groups(P, BeforeUpdateGroups(P, t), t), t)

(* C30: whenever update_existing_groups, called in the next frame, splits a
   group that has a non-terminal group ticket, it leaves that ticket
   CANCELLED with reason 'Group split due to separation', the group gone,
   and for each member exactly one new WAITING individual ticket with the
   group ticket's ready_at and split_from_group in its metadata *)
C30_SplitSideEffects ==
    \A dt \in FrameDts, where \in SplitWheres :
        SplitFrameInput(dt, where)
            => SplitContractAt(PersonsAfter(persons, TrackedDetections(where, 1), now + dt), now + dt)

(* ---------------- groups that spread ---------------- *)
(* one frame a second: several frames fall into T_BREAK *)
SpreadDts == {1}
SpreadMaxTime == 9

SpreadFrame == now < SpreadMaxTime /\ FrameOf(SpreadDts, SplitWheres, MaxSplitTickets, MaxVisits)

NextSpread == SpreadFrame

SpecSpread == Init /\ [][NextSpread]_vars

(* the members of the group that are among persons P are more than
   1.5 * D_MAX apart *)
SpreadApart(group, P) ==
    /\ Len(ActiveMembers(group, P)) > 1
    /\ 4 * MaxDistance2(ActiveMembers(group, P), P) > 9 * D_MAX * D_MAX

(* C31: a group is split in a frame only if its members were more than
   1.5 * D_MAX apart in the frame before as well, when that frame lies
   within the preceding T_BREAK seconds: a group that was compact in the
   frame before is not split *)
C31_SplitOnlyAfterSustainedSpread ==
    [][\A i \in GroupsSplit(persons', BeforeUpdateGroups(persons', now'), now') :
          now' - now <= T_BREAK => SpreadApart(groups[i], persons)]_vars

(* C32: every person id is a member of at most one group *)
C32_AtMostOneGroupPerPerson ==
    \A i \in 1..Len(groups), j \in 1..Len(groups) :
        i # j => SeqToSet(groups[i].members) \cap SeqToSet(groups[j].members) = {}

(* ---------------- examinations ---------------- *)
(* the frames Frame can take next *)
FrameInput(dt, where) ==
    /\ pc = "idle"
    /\ now + dt <= MaxTime
    /\ \A k \in 1..NumTracks : Enters(where, k) => visits[k] < MaxVisits
    /\ Len(TicketPipeline(PersonsAfter(persons, TrackedDetections(where, 1), now + dt), Manager, now + dt).tickets) <= MaxTickets

MinDuration(ticket) == IF ticket.type = "individual" THEN CHECK_MIN_INDIVIDUAL ELSE CHECK_MIN_BATCH

(* ticket i is under examination and the frame at time t is the first in
   which its examination has lasted the minimum *)
ExaminationDue(i, t) ==
    /\ tickets[i].status \in {"IN_CHECK", "IN_BATCH"}
    /\ tickets[i].examination_start # None
    /\ now - tickets[i].examination_start < MinDuration(tickets[i])
    /\ t - tickets[i].examination_start >= MinDuration(tickets[i])

GuardStillActive(i, M1) ==
    /\ tickets[i].assigned_guard \in 1..Len(M1.guards)
    /\ M1.guards[tickets[i].assigned_guard].is_active

ExaminationContract(P, M1, t) ==
    \A i \in 1..Len(tickets) :
        ExaminationDue(i, t) /\ GuardStillActive(i, M1)
            => M1.tickets[i].status = (IF AllInGate(tickets[i], P) THEN "CHECKED" ELSE "ESCALATED")

ExaminationContractAt(P, t) == ExaminationContract(P, TicketPipeline(P, Manager, t), t)

(* C33: in the first frame in which the examination of an IN_CHECK or
   IN_BATCH ticket with an active guard has lasted CHECK_MIN_INDIVIDUAL
   (CHECK_MIN_BATCH for a group), the frame leaves the ticket CHECKED if all
   its members are in the gate area and ESCALATED otherwise *)
C33_ExaminationEndsAtMinimum ==
    \A dt \in FrameDts, where \in Wheres :
        FrameInput(dt, where)
            => ExaminationContractAt(PersonsAfter(persons, TrackedDetections(where, 1), now + dt), now + dt)

(* ---------------- proximity before an examination ---------------- *)
ProximityMaxTime == 11
ProximityMaxVisits == 2

(* the second visitor stays near the anchor, the first is near or far, the
   member of staff is in the anchor or not detected *)
ProximityWheres == {w \in Wheres : w[1] # Absent /\ w[2] = PlaceGateNear}

ProximityFrame == now < ProximityMaxTime /\ FrameOf(SpreadDts, ProximityWheres, MaxTickets, ProximityMaxVisits)

NextProximity == ProximityFrame

SpecProximity == Init /\ [][NextProximity]_vars

(* the guard of the ticket is among persons P and within D_MAX of a member
   that is in the gate area *)
ProximityHeld(ticket, G, P) ==
    /\ ticket.assigned_guard \in 1..Len(G)
    /\ HasPerson(P, G[ticket.assigned_guard].person_id)
    /\ ProximityDetected(ticket, GetPerson(P, G[ticket.assigned_guard].person_id), P)

(* C34: a ticket goes from ASSIGNING to IN_CHECK or IN_BATCH in a frame only
   if guard-member proximity held in the frame before as well, when that
   frame lies within the preceding PROXIMITY_MIN seconds *)
C34_ExaminationOnlyAfterSustainedProximity ==
    [][\A i \in 1..Len(tickets) :
          /\ tickets[i].status = "ASSIGNING"
          /\ tickets'[i].status \in {"IN_CHECK", "IN_BATCH"}
          /\ now' - now <= PROXIMITY_MIN
          => ProximityHeld(tickets[i], guards, persons)]_vars

(* the track was among the confirmed tracks of the last frame and its
   smoothed position was in the gate area *)
WasInGateArea(track_id) ==
    /\ \E j \in 1..Len(returned) : returned[j].track_id = track_id
    /\ HasState(history, track_id)
    /\ point_in_zone(get_smoothed_position(StateOf(history, track_id).positions), gate_area_zone)

(* C35: a frame logs person_entered_gate_area for a track only if the track
   was not in the gate area in the frame before: one stay in the gate area
   gives one event *)
C35_EnteredOncePerStay ==
    [][\A i \in (Len(events) + 1)..Len(events') :
          events'[i].event_type = "person_entered_gate_area"
              => ~WasInGateArea(events'[i].track_id)]_vars

(* the contact of the pair has ended in the step: contact_ended is among the
   events the step logged *)
VisitorAwayBox == <<256, 0, 496, 480>>

ContactMaxTime == 7

(* the guard stays at the anchor; the visitor stands next to the guard,
   has stepped away, or is not detected *)
ContactDetections ==
    {<<Det(GuardBox, 90)>>,
     <<Det(GuardBox, 90), Det(VisitorBox, 90)>>,
     <<Det(GuardBox, 90), Det(VisitorAwayBox, 90)>>}

ContactFrame == GateFrameOf(ContactDetections, ContactMaxTime)

NextContact == ContactFrame

SpecContact == Init /\ [][NextContact]_vars

ContactEndedLogged(key) ==
    \E i \in (Len(events) + 1)..Len(events') :
        /\ events'[i].event_type = "contact_ended"
        /\ events'[i].track_id = key[1]
        /\ events'[i].related_track_id = key[2]

(* C36: a pair of tracks in active_contacts for which the contact predicate
   is false in a frame is no longer in active_contacts after the frame, and
   the frame has logged contact_ended for it *)
C36_ContactClosedWhenLost ==
    [][\A key \in active_contacts :
          key \notin ContactKeys(_analyze_tracks(returned', AddPositions(history, returned', 1)))
              => key \notin active_contacts' /\ ContactEndedLogged(key)]_vars

(* ---------------- leaving the gate area ---------------- *)
LeaveMaxTime == 12

(* the person is outside the gate area, or inside it with the guard
   assigned, away from the guard or in contact with the pose seen *)
LeaveObservations ==
    {ObsOut, ObsContact(2, TRUE),
     [in_gate_area |-> TRUE, guard_track_id |-> 2, is_in_contact |-> FALSE,
      contact_metrics |-> FarMetrics, pose_detected |-> FALSE]}

(* one update_person call a second at dt = 1.0 *)
UpdatePersonEverySecond == UpdatePersonWith({1}, LeaveObservations, {1000}, LeaveMaxTime)

NextLeave == UpdatePersonEverySecond \/ UpdateGuardState

SpecLeave == Init /\ [][NextLeave]_vars

(* C37: after every update_person call a person whose consecutive_out_ga
   has reached multi_frame_consensus (3) is in IDLE or CHECK_COMPLETED, never
   in PRESENT_IN_GA, GUARD_PRESENT or INTERACTION_WINDOW *)
C37_OutOfGateAreaIsIdle ==
    \A i \in 1..Len(person_states) :
        person_states[i].consecutive_out_ga >= multi_frame_consensus
            => person_states[i].current_state \in {"IDLE", "CHECK_COMPLETED"}

(* ---------------- the completed check ---------------- *)
CooldownLookahead == 12

(* update_person at time t for a person in CHECK_COMPLETED leaves the
   person there and does not report a completion *)
StaysCompleted(r, track_id) ==
    /\ StateOf(r.person_states, track_id).current_state = "CHECK_COMPLETED"
    /\ ~r.decision.completed

UpdatePersonOn(track_id, obs, t) ==
    update_person(person_states, guard_states, track_id, obs.in_gate_area,
                  obs.guard_track_id, obs.is_in_contact, obs.contact_metrics,
                  obs.pose_detected, ClampDt(1000), t)

(* C38: CHECK_COMPLETED is absorbing for update_person: for a PersonState
   in CHECK_COMPLETED, an update_person call with any observation, during
   the cooldown or after it has expired, leaves the state CHECK_COMPLETED
   and reports completed = false *)
C38_CheckCompletedAbsorbing ==
    \A track_id \in FsmPersons, obs \in Observations, t \in now..(now + CooldownLookahead) :
        (HasState(person_states, track_id)
         /\ StateOf(person_states, track_id).current_state = "CHECK_COMPLETED")
            => StaysCompleted(UpdatePersonOn(track_id, obs, t), track_id)

(* a completed person that update_person was called for after the end of
   its cooldown and outside the gate area for three calls *)
C38_Witness ==
    \E i \in 1..Len(person_states) :
        /\ person_states[i].current_state = "CHECK_COMPLETED"
        /\ person_states[i].last_update_at = now
        /\ person_states[i].cooldown_until <= now
        /\ person_states[i].consecutive_out_ga >= multi_frame_consensus

(* ---------------- unstable person ids ---------------- *)
FreshMaxDetections == 2

FreshFrameStep(P, M, n, t) ==
    /\ t <= MaxTime
    /\ Len(M.tickets) <= MaxTickets
    /\ now' = t
    /\ persons' = P
    /\ groups' = M.groups
    /\ tickets' = M.tickets
    /\ guards' = M.guards
    /\ queue' = M.queue
    /\ uuid_counter' = uuid_counter + n
    /\ UNCHANGED <<state_lock, pc, visits, fsm_vars, tracker_vars, gate_vars, replica, dedup_vars>>

FreshFrameOn(P, n, t) == FreshFrameStep(P, TicketPipeline(P, Manager, t), n, t)

(* the critical section of process_detections, from the build of
   current_persons with a uuid4 for every detection to
   check_escalation_conditions, frame after frame *)
FreshFrame ==
    \E dt \in FrameDts, n \in 0..FreshMaxDetections :
      \E raw \in [1..n -> RawDetections] :
        /\ pc = "idle"
        /\ Acquire(state_lock).acquired
        /\ FreshFrameOn(PersonsAfter(persons, WithUuids(raw, uuid_counter), now + dt), n, now + dt)

NextFresh == FreshFrame

SpecFresh == Init /\ [][NextFresh]_vars

(* C39: in every state reached through process_detections alone, tickets,
   queue and guards are empty: no individual ticket, group ticket or guard
   record is ever created *)
C39_NothingCreatedWithFreshIds ==
    /\ tickets = <<>>
    /\ queue = <<>>
    /\ guards = <<>>

(* the fourth frame or a later one, with a person detected at the guard
   anchor and two in the gate area who form a group: with ids that last,
   the guard would be ready and the group locked *)
C39_Witness ==
    /\ now >= Clock0 + 4 * 3
    /\ uuid_counter >= 4 * FreshMaxDetections
    /\ Len(groups) > 0
    /\ \E i \in 1..Len(persons) : persons[i].in_gate_area
    /\ tickets = <<>>

(* a person detected at the guard anchor in the fourth frame or later *)
AnchorStillAnonymous ==
    /\ uuid_counter >= 4 * FreshMaxDetections
    /\ \E i \in 1..Len(persons) : persons[i].in_guard_anchor
    /\ guards = <<>>

(* ---------------- frames that keep arriving ---------------- *)
(* Every test of the ticket manager compares a difference of two clock
   readings with a threshold of at most T_MAX_WAIT, so a state and the same
   state with every clock reading moved by the same amount behave alike.
   The clock of this specification runs freely up to RollClock; from then
   on, whenever it passes RollClock, the origin of time is moved forward by
   RollSpan: the clock and every stored reading lose RollSpan, and a
   reading that would fall below Clock0 is kept at Clock0, which is still
   more than T_MAX_WAIT in the past.  The states are finitely many and the
   frames never stop. *)
RollClock == 56
RollSpan == 10
SteadyMaxTickets == 3

ShiftTime(x, d) == IF x = None THEN None ELSE Max(Clock0, x - d)

ShiftHistory(h, d) == [k \in 1..Len(h) |-> [h[k] EXCEPT !.time = ShiftTime(h[k].time, d)]]

ShiftPersons(P, d) ==
    [k \in 1..Len(P) |->
        [P[k] EXCEPT !.first_seen = ShiftTime(P[k].first_seen, d),
                     !.anchor_entry_time = ShiftTime(P[k].anchor_entry_time, d),
                     !.guard_classification_time = ShiftTime(P[k].guard_classification_time, d),
                     !.location_history = ShiftHistory(P[k].location_history, d)]]

ShiftGroups(G, d) ==
    [k \in 1..Len(G) |->
        [G[k] EXCEPT !.formed_at = ShiftTime(G[k].formed_at, d),
                     !.last_updated = ShiftTime(G[k].last_updated, d)]]

ShiftTickets(T, d) ==
    [k \in 1..Len(T) |->
        [T[k] EXCEPT !.created_at = ShiftTime(T[k].created_at, d),
                     !.ready_at = ShiftTime(T[k].ready_at, d),
                     !.proximity_start = ShiftTime(T[k].proximity_start, d),
                     !.examination_start = ShiftTime(T[k].examination_start, d),
                     !.completed_at = ShiftTime(T[k].completed_at, d)]]

ShiftGuards(G, d) ==
    [k \in 1..Len(G) |->
        [G[k] EXCEPT !.active_since = ShiftTime(G[k].active_since, d),
                     !.last_seen = ShiftTime(G[k].last_seen, d)]]

(* the staff member stays at the guard anchor; each visitor is out of
   view or in the gate area, farther than D_MAX from the anchor *)
SteadyWheres ==
    {w \in Wheres : /\ w[NumTracks] = PlaceAnchor
                    /\ \A k \in 1..(NumTracks - 1) : w[k] \in {Absent, PlaceGateFar}}

SteadyDts == {5}

(* the clock reading t after the origin of time has moved *)
Rolled(t) == IF t > RollClock THEN t - RollSpan ELSE t

SteadyResult(P, M, t, d, where) ==
    /\ Len(M.tickets) <= SteadyMaxTickets
    /\ \A k \in 1..NumTracks : Enters(where, k) => visits[k] < MaxVisits
    /\ visits' = [k \in 1..NumTracks |-> IF Enters(where, k) THEN visits[k] + 1 ELSE visits[k]]
    /\ now' = Rolled(t)
    /\ persons' = ShiftPersons(P, d)
    /\ groups' = ShiftGroups(M.groups, d)
    /\ tickets' = ShiftTickets(M.tickets, d)
    /\ guards' = ShiftGuards(M.guards, d)
    /\ queue' = M.queue
    /\ UNCHANGED <<state_lock, pc, uuid_counter, fsm_vars, tracker_vars, gate_vars, replica, dedup_vars>>

SteadyStep(P, t, where) ==
    SteadyResult(P, TicketPipeline(P, Manager, t), t, t - Rolled(t), where)

(* one frame of the ticket manager on persons keyed by a stable id, as
   FrameOf, with no last frame *)
SteadyFrame ==
    \E dt \in SteadyDts, where \in SteadyWheres :
        /\ pc = "idle"
        /\ Acquire(state_lock).acquired
        /\ SteadyStep(PersonsAfter(persons, TrackedDetections(where, 1), now + dt), now + dt, where)

NextSteady == SteadyFrame

(* the clock as a frame moves it: every SteadyFrame step is such a step,
   and no other step of the specification is *)
FrameArrives == \E dt \in SteadyDts : now' = Rolled(now + dt)

(* the frames keep arriving: the camera loop hands process_detections a
   frame again and again, so there is no last frame *)
SpecSteady == Init /\ [][NextSteady]_vars /\ WF_now(FrameArrives)

(* C40: no ticket stays non-terminal forever: while the frames keep
   arriving, every ticket that is WAITING, ASSIGNING, IN_CHECK or IN_BATCH
   reaches CHECKED, ESCALATED or CANCELLED, also a ticket in ASSIGNING whose
   active guard never comes within D_MAX of a member *)
C40_EveryTicketTerminates ==
    \A i \in 1..SteadyMaxTickets :
        (i <= Len(tickets) /\ tickets[i].status \notin Terminal)
            ~> (i <= Len(tickets) /\ tickets[i].status \in Terminal)

====
